---- MODULE Spec2Model ----
(***************************************************************************)
(* Model of the Danfoss Eco BLE session (EtrvBleClient), the device facade *)
(* (EtrvDevice) and the coordinator's disconnect, as asyncio tasks.        *)
(*                                                                         *)
(* One action is one run of a coroutine between two suspension points:     *)
(* the completion of the awaited call (with its outcome and duration as    *)
(* inputs) followed by the code up to the next await.                      *)
(*                                                                         *)
(* Time is counted in ticks of 25 ms, so that every timing constant of     *)
(* client.py and the 35 % jitter of each backoff value are whole numbers.  *)
(***************************************************************************)
EXTENDS Integers, Sequences, FiniteSets, TLC

\* ---------------------------------------------------------------- constants
\* client.py timing constants, in ticks of 25 ms
DEFAULT_CONNECT_TIMEOUT == 3600
CONNECT_ATTEMPT_TIMEOUT == 800
CONNECT_RETRY_DELAY == 20
CONNECT_BACKOFF_MAX == 320
CONNECT_BACKOFF_JITTER == 35
CONNECT_STALE_CLOSE_EVERY == 320
\* the 5.0 s added to per_attempt in asyncio.timeout(per_attempt + 5.0)
ATTEMPT_GRACE == 200
\* asyncio.sleep(0.5) after the PIN write
PIN_SETTLE == 20

\* ------------------------------------------------------------------- bounds
\* number of physical links the transport can hand out in one run
MaxLinks == 2
\* number of facade operations the callers start in one run
MaxOps == 2
\* reading of time.monotonic() when a call enters _ensure_connected
BootUptime == 400
\* longest time an eviction or a PIN write is taken to last, in ticks
SlowCall == 40

None == 0
Links == 1..MaxLinks
NoTask == "none"
\* the polling caller, the command caller (coordinator.py 70-90), and the unload
\* of the config entry (__init__.py 33-39)
OpTasks == {"poll", "command"}
DiscTasks == {"unload"}
Tasks == OpTasks \cup DiscTasks

Min(x, y) == IF x <= y THEN x ELSE y
Max(x, y) == IF x >= y THEN x ELSE y

RECURSIVE Pow2(_)
Pow2(n) == IF n <= 0 THEN 1 ELSE 2 * Pow2(n - 1)

\* ------------------------------------------------------------------- const.py
UUID_BATTERY == "battery"
UUID_TEMPERATURE == "temperature"
UUID_NAME == "name"
UUID_SECRET_KEY == "secret_key"

\* ---------------------------------------------------------------- variables
VARIABLES
    client,         \* EtrvBleClient._client: a link, or None
    pin_sent,       \* EtrvBleClient._pin_sent
    stay_connected, \* EtrvBleClient._stay_connected
    has_secret,     \* EtrvBleClient._secret is not None
    lockHolder,     \* task that holds EtrvBleClient._lock, or NoTask
    lockWaiters,    \* asyncio.Lock._waiters, first come first served
    linkState,      \* per link: "unused", "up" (is_connected) or "down"
    pc,             \* per task: the await it is suspended in
    call,           \* per task: the client call in progress
    todo,           \* per task: the client calls its facade operation still has to make
    fr,             \* per task: the locals of _ensure_connected / _send_pin_once
    cl,             \* per task: the local `client` of async_read / async_read_many / async_write
    result,         \* per task: how its last client call ended: "ok" or the exception raised
    now,            \* time.monotonic() as read by the call that holds the lock
    pinWrites,      \* history: per link, number of acknowledged PIN writes
    pinSettled,     \* history: per link, the settle delay after an acknowledged PIN write has elapsed
    opener,         \* history: per link, send_pin of the call that established it
    encIO,          \* history: links on which an encrypted attribute read or write was issued
    issued,         \* number of facade operations started so far
    gatt,           \* one _read_gatt_char / _write_gatt_char call: its position and transport calls
    rec,            \* one set_temperature computation: payload read, target, payload written
    codec,          \* one etrv_encode / etrv_decode computation: input, key, output
    keyread,        \* one async_get_secret_key conversion: bytes read, string returned
    coord           \* EtrvCoordinator: _pending_setpoint, its debouncer, the apply in progress

vars == <<client, pin_sent, stay_connected, has_secret, lockHolder, lockWaiters,
          linkState, pc, call, todo, fr, cl, result, now,
          pinWrites, pinSettled, opener, encIO, issued, gatt, rec, codec,
          keyread, coord>>

session == <<client, pin_sent>>
units == <<gatt, rec, codec, keyread, coord>>
config == <<stay_connected, has_secret>>
lock == <<lockHolder, lockWaiters>>
history == <<pinWrites, pinSettled, opener, encIO>>

\* -------------------------------------------------------------------- calls
\* A client call: async_read / async_read_many / async_write with its keyword
\* arguments. timeout is <<>> for None and <<x>> for a value.
NoCall == [op |-> "none", uuids |-> <<>>, idx |-> 0, crypt |-> FALSE,
           send_pin |-> FALSE, timeout |-> <<>>]

ReadCall(uuid, decode, sendPin, timeout) ==
    [op |-> "read", uuids |-> <<uuid>>, idx |-> 1, crypt |-> decode,
     send_pin |-> sendPin, timeout |-> timeout]

ReadManyCall(uuids, decode, sendPin) ==
    [op |-> "read_many", uuids |-> uuids, idx |-> 1, crypt |-> decode,
     send_pin |-> sendPin, timeout |-> <<>>]

WriteCall(uuid, encode, sendPin) ==
    [op |-> "write", uuids |-> <<uuid>>, idx |-> 1, crypt |-> encode,
     send_pin |-> sendPin, timeout |-> <<>>]

\* mutant: the battery read asks for the PIN like the encrypted reads
async_read_state_with_pin ==
    << ReadCall(UUID_BATTERY, FALSE, TRUE, <<>>),
       ReadManyCall(<<UUID_TEMPERATURE, UUID_NAME>>, TRUE, TRUE) >>

\* EtrvDevice.async_read_state: the battery read, then the encrypted reads
async_read_state ==
    << ReadCall(UUID_BATTERY, FALSE, FALSE, <<>>),
       ReadManyCall(<<UUID_TEMPERATURE, UUID_NAME>>, TRUE, TRUE) >>

\* EtrvDevice.async_set_temperature: read the record, write it back
async_set_temperature ==
    << ReadCall(UUID_TEMPERATURE, TRUE, TRUE, <<>>),
       WriteCall(UUID_TEMPERATURE, TRUE, TRUE) >>

\* EtrvBleClient.async_get_secret_key: one plain read with the PIN presented
async_get_secret_key(timeout) ==
    << ReadCall(UUID_SECRET_KEY, FALSE, TRUE, <<timeout>>) >>

FacadeOps == {async_read_state, async_set_temperature,
              async_get_secret_key(DEFAULT_CONNECT_TIMEOUT)}

\* timeouts a caller passes to async_read / async_get_secret_key, in ticks
Timeouts == {0, CONNECT_RETRY_DELAY, CONNECT_ATTEMPT_TIMEOUT + ATTEMPT_GRACE}

\* ------------------------------------------------------------------- frames
\* The locals of _ensure_connected and _send_pin_once of the call in progress.
\* path is "fast" on the open-link path (77-80) and "slow" in the loop; link is
\* the local `client` of the loop, or the link a PIN write or a disconnect is
\* addressed to. The other fields are history: timeout, the timeout in force;
\* prev_sleep, the sleep before the last one; fails, the number of failed
\* iterations; att_remaining and att_dur, `remaining` at the start of the last
\* link attempt and how long that attempt lasted; link_attempt, the iteration
\* that established link; was_sent, _pin_sent just before link was established.
NoFrame == [path |-> "none", deadline |-> 0, attempt |-> 0, last_err |-> "None",
            last_stale_close |-> 0, remaining |-> 0, per_attempt |-> 0,
            started |-> 0, sleep_for |-> 0, link |-> None,
            timeout |-> 0, prev_sleep |-> 0, fails |-> 0, att_remaining |-> 0,
            att_dur |-> 0, link_attempt |-> 0, was_sent |-> FALSE]

NoResult == "none"

\* ------------------------------------------------------------------- inputs
\* Durations and random draws are inputs. The profile "connect" (one call of
\* _ensure_connected on its own) draws them from richer sets than the profile
\* "session" (concurrent facade operations), where the device is visible, the
\* eviction succeeds and a failed link attempt lasts until its time limit.
Jitters(backoff, p) ==
    LET top == (backoff * CONNECT_BACKOFF_JITTER) \div 100
    IN  IF p = "connect" THEN {0, top} ELSE {0}

OkDurations(limit, p) == IF p = "connect" THEN {0, limit} ELSE {0}

FailDurations(limit, p) == IF p = "connect" THEN {0, limit} ELSE {limit}

CallDurations(p) == IF p = "connect" THEN {0, SlowCall} ELSE {0}

\* whether close_stale_connections_by_address returns (TRUE) or raises
EvictOutcomes(p) == IF p = "connect" THEN BOOLEAN ELSE {TRUE}

\* whether async_ble_device_from_address finds the device
Resolutions(p) == IF p = "connect" THEN BOOLEAN ELSE {TRUE}

\* ------------------------------------------------------------------- units
\* The accessor, the record functions and the codec hold no session state;
\* each is followed on one call of its own, apart from the session.

\* no accessor call in progress
NoGatt == [pc |-> "idle", op |-> "none", uuid |-> "none", target |-> "none",
           kwarg |-> FALSE, calls |-> <<>>, out |-> "none"]

\* no set_temperature computation in progress
NoRec == [pc |-> "idle", raw |-> <<>>, target |-> 0, bounded |-> 0,
          payload |-> <<>>, ret |-> <<>>]

\* no codec computation in progress
NoCodec == [pc |-> "idle", data |-> <<>>, key |-> <<>>, wire |-> <<>>,
            out |-> <<>>, err |-> <<>>, ran |-> FALSE]

\* no secret-key conversion in progress
NoKeyRead == [pc |-> "idle", data |-> <<>>, value |-> <<>>]

\* EtrvCoordinator.__init__ (coordinator.py 55-64): no setpoint pending, the
\* debouncer at rest. <<>> stands for None, <<v>> for the value v. requested
\* and applied are history: the last value asked for, and the values passed
\* to EtrvDevice.async_set_temperature.
NoCoord == [pending |-> <<>>, timer |-> FALSE, pc |-> "idle",
            requested |-> <<>>, applied |-> <<>>]

\* --------------------------------------------------------------------- Init
\* EtrvBleClient.__init__ and the tasks before their first call
InitClient ==
    /\ client = None
    /\ pin_sent = FALSE
    /\ stay_connected \in BOOLEAN
    /\ has_secret \in BOOLEAN
    /\ lockHolder = NoTask
    /\ lockWaiters = <<>>
    /\ linkState = [l \in Links |-> "unused"]
    /\ pc = [t \in Tasks |-> "idle"]
    /\ call = [t \in Tasks |-> NoCall]
    /\ todo = [t \in Tasks |-> <<>>]
    /\ fr = [t \in Tasks |-> NoFrame]
    /\ cl = [t \in Tasks |-> None]
    /\ result = [t \in Tasks |-> NoResult]
    /\ now = 0
    /\ pinWrites = [l \in Links |-> 0]
    /\ pinSettled = [l \in Links |-> FALSE]
    /\ opener = [l \in Links |-> FALSE]
    /\ encIO = {}
    /\ issued = 0

Init ==
    /\ InitClient
    /\ gatt = NoGatt
    /\ rec = NoRec
    /\ codec = NoCodec
    /\ keyread = NoKeyRead
    /\ coord = NoCoord


\* mutant: the session never takes its link for connected
IsConnectedNever(c) == FALSE

\* BleakClient.is_connected of the object self._client refers to
IsConnected(c) == c # None /\ linkState[c] = "up"

\* ------------------------------------------------------- control-flow pieces
\* Each piece gives the next values of pc, fr, now, result, todo, call, cl,
\* lockHolder and encIO.

\* mutant: an exception ends the call without releasing the lock
RaiseKeepingLock(t, e) ==
    /\ pc' = [pc EXCEPT ![t] = "idle"]
    /\ fr' = [fr EXCEPT ![t] = NoFrame]
    /\ cl' = [cl EXCEPT ![t] = None]
    /\ call' = [call EXCEPT ![t] = NoCall]
    /\ todo' = [todo EXCEPT ![t] = <<>>]
    /\ result' = [result EXCEPT ![t] = e]
    /\ now' = 0
    /\ UNCHANGED <<lockHolder, encIO>>

\* An exception leaves `async with self._lock`: the lock is released and the
\* facade operation of the task ends with it.
Raise(t, e) ==
    /\ pc' = [pc EXCEPT ![t] = "idle"]
    /\ fr' = [fr EXCEPT ![t] = NoFrame]
    /\ cl' = [cl EXCEPT ![t] = None]
    /\ call' = [call EXCEPT ![t] = NoCall]
    /\ todo' = [todo EXCEPT ![t] = <<>>]
    /\ result' = [result EXCEPT ![t] = e]
    /\ lockHolder' = NoTask
    /\ now' = 0
    /\ UNCHANGED encIO

\* The call returns normally: the lock is released and the facade goes on to
\* its next client call, if any.
Return(t) ==
    /\ pc' = [pc EXCEPT ![t] = IF todo[t] = <<>> THEN "idle" ELSE "next"]
    /\ fr' = [fr EXCEPT ![t] = NoFrame]
    /\ cl' = [cl EXCEPT ![t] = None]
    /\ call' = [call EXCEPT ![t] = NoCall]
    /\ result' = [result EXCEPT ![t] = "ok"]
    /\ lockHolder' = NoTask
    /\ now' = 0
    /\ UNCHANGED <<todo, encIO>>

\* The task is suspended in the await named q.
Goto(t, q, f, tnow) ==
    /\ pc' = [pc EXCEPT ![t] = q]
    /\ fr' = [fr EXCEPT ![t] = f]
    /\ now' = tnow
    /\ UNCHANGED <<result, todo, call, cl, lockHolder, encIO>>

\* client.py 245, 269, 292-297: _ensure_connected has returned c; the code up
\* to the attribute read or write. A write checks the secret key first; a
\* call on no client object fails before any I/O.
AfterEnsure(t, c, f, tnow) ==
    IF call[t].op = "write" /\ call[t].crypt /\ ~has_secret
    THEN Raise(t, "EtrvBleError")
    ELSE IF c = None
    THEN Raise(t, "AttributeError")
    ELSE /\ pc' = [pc EXCEPT ![t] = "io"]
         /\ fr' = [fr EXCEPT ![t] = f]
         /\ cl' = [cl EXCEPT ![t] = c]
         /\ now' = tnow
         /\ encIO' = IF call[t].crypt THEN encIO \cup {c} ELSE encIO
         /\ UNCHANGED <<result, todo, call, lockHolder>>

\* mutant: the backoff grows by one retry delay per attempt instead of doubling
BaseBackoffLinear(attempt) ==
    Min(CONNECT_BACKOFF_MAX, CONNECT_RETRY_DELAY * Max(1, attempt))

\* client.py 144: the backoff after a failed iteration, before the jitter
BaseBackoff(attempt) ==
    Min(CONNECT_BACKOFF_MAX, CONNECT_RETRY_DELAY * Pow2(Max(0, attempt - 1)))

\* client.py 145-148: the jitter, the sleep bounded by the deadline
BackoffAndSleep(t, f, tnow, p) ==
    \E j \in Jitters(BaseBackoff(f.attempt), p) :
        LET backoff == BaseBackoff(f.attempt) + j
            sleep_for == Min(backoff, Max(0, f.deadline - tnow))
            g == [f EXCEPT !.fails = @ + 1, !.sleep_for = sleep_for,
                           !.prev_sleep = f.sleep_for]
        IN  Goto(t, IF sleep_for > 0 THEN "sleeping" ELSE "loop", g, tnow)

\* client.py 114: the bound of one link attempt
PerAttempt(remaining) == Min(CONNECT_ATTEMPT_TIMEOUT, remaining)

\* client.py 117: asyncio.timeout(per_attempt + 5.0)
AttemptLimit(per_attempt) == per_attempt + ATTEMPT_GRACE

\* mutant: an unresolvable device is not recorded as the last error
NoDeviceErrorLost == "None"

\* client.py 112: what last_err records when the device cannot be resolved
NoDeviceError == "nodevice"

\* client.py 107-125: resolve the device and start the link attempt
ResolveAndAttempt(t, f, tnow, p) ==
    \E resolvable \in Resolutions(p) :
        IF ~resolvable
        THEN BackoffAndSleep(t, [f EXCEPT !.last_err = NoDeviceError], tnow, p)
        ELSE Goto(t, "connecting",
                  [f EXCEPT !.per_attempt = PerAttempt(f.remaining),
                            !.started = tnow,
                            !.att_remaining = f.remaining,
                            !.att_dur = 0], tnow)

\* ----------------------------------------------------------------- the lock
\* mutant: acquire looks at the queue only, not at the holder
LockFreeIgnoresHolder == lockWaiters = <<>>

\* mutant: acquire looks at the holder only: a caller takes a released lock
\* ahead of the tasks queued for it
LockFreeIgnoresWaiters == lockHolder = NoTask

\* asyncio.Lock.acquire returns at once only if the lock is free and no task
\* is queued for it.
LockFree == lockHolder = NoTask /\ lockWaiters = <<>>

\* A caller starts a facade operation (or a single client call).
Issue(t, script) ==
    /\ pc[t] = "idle"
    /\ issued < MaxOps
    /\ issued' = issued + 1
    /\ pc' = [pc EXCEPT ![t] = "next"]
    /\ todo' = [todo EXCEPT ![t] = script]
    /\ result' = [result EXCEPT ![t] = NoResult]
    /\ UNCHANGED <<session, config, units, lock, linkState, call, fr, cl, now, history>>

\* client.py 243, 265, 290: `async with self._lock`
BeginCall(t) ==
    /\ pc[t] = "next"
    /\ call' = [call EXCEPT ![t] = Head(todo[t])]
    /\ todo' = [todo EXCEPT ![t] = Tail(todo[t])]
    /\ IF LockFree
       THEN /\ lockHolder' = t
            /\ pc' = [pc EXCEPT ![t] = "ensure"]
            /\ UNCHANGED lockWaiters
       ELSE /\ lockWaiters' = Append(lockWaiters, t)
            /\ pc' = [pc EXCEPT ![t] = "wait_lock"]
            /\ UNCHANGED lockHolder
    /\ UNCHANGED <<session, config, issued, units, linkState, fr, cl, result, now, history>>

\* asyncio.Lock: the released lock goes to the first waiter.
LockGranted(t) ==
    /\ pc[t] = "wait_lock"
    /\ lockHolder = NoTask
    /\ lockWaiters # <<>>
    /\ Head(lockWaiters) = t
    /\ lockHolder' = t
    /\ lockWaiters' = Tail(lockWaiters)
    /\ pc' = [pc EXCEPT ![t] = "ensure"]
    /\ UNCHANGED <<session, config, issued, units, linkState, call, todo, fr, cl, result, now, history>>

\* ------------------------------------------------------- _ensure_connected
\* mutant: _send_pin_once does not look at the flag
SendPinOnceIgnoresFlag(flag, c) == c # None

\* client.py 155-158: _send_pin_once writes the PIN unless it has been sent on
\* this connection or there is no client object
SendPinOnceActs(flag, c) == ~flag /\ c # None

\* mutant: the open-link path returns the client without presenting the PIN
FastPathSkipsPin(sendPin) == FALSE

\* client.py 78: the open-link path presents the PIN when the call asks for it
FastPathSendsPin(sendPin) == sendPin

\* mutant: the flag is not reset for the new link
FlagOnNewLinkKept(flag) == flag

\* client.py 134: _pin_sent when a new link has been stored
FlagOnNewLink(flag) == FALSE

CallTimeout(c) == IF c.timeout = <<>> THEN DEFAULT_CONNECT_TIMEOUT ELSE c.timeout[1]

\* client.py 77-85 and 154-167: the open-link path, or the start of the loop,
\* when time.monotonic() reads uptime
EnsureEntryAt(t, uptime) ==
    /\ pc[t] = "ensure"
    /\ UNCHANGED <<session, config, issued, units, lockWaiters, linkState, pinWrites, pinSettled, opener>>
    /\ IF IsConnected(client)
       THEN LET f == [NoFrame EXCEPT !.path = "fast", !.link = client]
            IN  IF FastPathSendsPin(call[t].send_pin) /\ SendPinOnceActs(pin_sent, client)
                THEN Goto(t, "pin_write", f, uptime)
                ELSE AfterEnsure(t, client, f, uptime)
       ELSE Goto(t, "loop",
                    [NoFrame EXCEPT !.path = "slow",
                                    !.timeout = CallTimeout(call[t]),
                                    !.deadline = uptime + CallTimeout(call[t])],
                    uptime)

EnsureEntry(t) == EnsureEntryAt(t, BootUptime)

\* mutant: the loop is left only once the deadline lies in the past
DeadlineOverdue(remaining) == remaining < 0

\* client.py 89: if remaining <= 0: break
DeadlineReached(remaining) == remaining <= 0

\* client.py 150-152: the deadline has been reached
LoopTimeout(t) ==
    /\ pc[t] = "loop"
    /\ DeadlineReached(fr[t].deadline - now)
    /\ UNCHANGED <<session, config, issued, units, lockWaiters, linkState, pinWrites, pinSettled, opener>>
    /\ Raise(t, "EtrvBleTimeoutError")

\* mutant: the eviction runs in every iteration
EvictionDueEveryAttempt(tnow, last_stale_close) == TRUE

\* client.py 96: (time.monotonic() - last_stale_close) > CONNECT_STALE_CLOSE_EVERY
EvictionDue(tnow, last_stale_close) ==
    (tnow - last_stale_close) > CONNECT_STALE_CLOSE_EVERY

\* client.py 88-114: one more iteration
LoopTop(t, p) ==
    /\ pc[t] = "loop"
    /\ fr[t].deadline - now > 0
    /\ UNCHANGED <<session, config, issued, units, lockWaiters, linkState, pinWrites, pinSettled, opener>>
    /\ LET f == [fr[t] EXCEPT !.remaining = fr[t].deadline - now,
                              !.attempt = @ + 1]
       IN  IF EvictionDue(now, f.last_stale_close)
           THEN Goto(t, "evicting", f, now)
           ELSE ResolveAndAttempt(t, f, now, p)

\* client.py 97-105: close_stale_connections_by_address returns or raises
EvictDone(t, p) ==
    /\ pc[t] = "evicting"
    /\ UNCHANGED <<session, config, issued, units, lockWaiters, linkState, pinWrites, pinSettled, opener>>
    /\ \E d \in CallDurations(p), ok \in EvictOutcomes(p) :
          LET tnow == now + d
              f == IF ok THEN [fr[t] EXCEPT !.last_stale_close = tnow] ELSE fr[t]
          IN  ResolveAndAttempt(t, f, tnow, p)

FreshLink == CHOOSE l \in Links : linkState[l] = "unused" /\
                 \A k \in Links : linkState[k] = "unused" => l <= k

\* client.py 120-137: establish_connection returns a link
ConnectOk(t, p) ==
    /\ pc[t] = "connecting"
    /\ \E l \in Links : linkState[l] = "unused"
    /\ \E d \in OkDurations(AttemptLimit(fr[t].per_attempt), p) :
          LET l == FreshLink
              f == [fr[t] EXCEPT !.link = l, !.att_dur = d,
                                 !.link_attempt = fr[t].attempt,
                                 !.was_sent = pin_sent]
          IN  /\ linkState' = [linkState EXCEPT ![l] = "up"]
              /\ client' = l
              /\ pin_sent' = FlagOnNewLink(pin_sent)
              /\ opener' = [opener EXCEPT ![l] = call[t].send_pin]
              /\ UNCHANGED <<config, issued, units, lockWaiters, pinWrites, pinSettled>>
              /\ IF call[t].send_pin /\ SendPinOnceActs(pin_sent', client')
                 THEN Goto(t, "pin_write", f, now + d)
                 ELSE AfterEnsure(t, l, f, now + d)

\* client.py 117, 138-139: asyncio.timeout ends the attempt
ConnectTimeout(t, p) ==
    /\ pc[t] = "connecting"
    /\ UNCHANGED <<session, config, issued, units, lockWaiters, linkState, pinWrites, pinSettled, opener>>
    /\ LET d == AttemptLimit(fr[t].per_attempt)
       IN  BackoffAndSleep(t, [fr[t] EXCEPT !.last_err = "timeout", !.att_dur = d],
                           now + d, p)

\* client.py 140-141: establish_connection raises BleakError
ConnectError(t, p) ==
    /\ pc[t] = "connecting"
    /\ UNCHANGED <<session, config, issued, units, lockWaiters, linkState, pinWrites, pinSettled, opener>>
    /\ \E d \in FailDurations(AttemptLimit(fr[t].per_attempt), p) :
          BackoffAndSleep(t, [fr[t] EXCEPT !.last_err = "bleak", !.att_dur = d],
                          now + d, p)

\* client.py 146-148: asyncio.sleep(sleep_for) is over
SleepDone(t) ==
    /\ pc[t] = "sleeping"
    /\ UNCHANGED <<session, config, issued, units, lockWaiters, linkState, history>>
    /\ Goto(t, "loop", fr[t], now + fr[t].sleep_for)

\* ----------------------------------------------------------- _send_pin_once
\* client.py 167, 171: the PIN write is acknowledged; the settle sleep starts
PinWriteOk(t, p) ==
    /\ pc[t] = "pin_write"
    /\ linkState[fr[t].link] = "up"
    /\ pinWrites' = [pinWrites EXCEPT ![fr[t].link] = @ + 1]
    /\ UNCHANGED <<session, config, issued, units, lockWaiters, linkState, pinSettled, opener>>
    /\ \E d \in CallDurations(p) : Goto(t, "pin_settle", fr[t], now + d)

\* client.py 168-170: the PIN write raises BleakError, raised as EtrvBleError
PinWriteError(t) ==
    /\ pc[t] = "pin_write"
    /\ UNCHANGED <<session, config, issued, units, lockWaiters, linkState, pinWrites, pinSettled, opener>>
    /\ Raise(t, "EtrvBleError")

\* client.py 167 with 138-139: the PIN write raises TimeoutError, which
\* _send_pin_once does not catch. Inside the try block of the connect loop it
\* is caught as a failed attempt; on the open-link path it reaches the caller.
PinWriteTimeout(t, p) ==
    /\ pc[t] = "pin_write"
    /\ UNCHANGED <<session, config, issued, units, lockWaiters, linkState, pinWrites, pinSettled, opener>>
    /\ \E d \in CallDurations(p) :
          IF fr[t].path = "slow"
          THEN BackoffAndSleep(t, [fr[t] EXCEPT !.last_err = "timeout"], now + d, p)
          ELSE Raise(t, "TimeoutError")

\* client.py 171-173, then 80 or 137: the settle sleep is over
PinSettleDone(t) ==
    /\ pc[t] = "pin_settle"
    /\ pin_sent' = TRUE
    /\ pinSettled' = [pinSettled EXCEPT ![fr[t].link] = TRUE]
    /\ UNCHANGED <<client, config, issued, units, lockWaiters, linkState, pinWrites, opener>>
    /\ AfterEnsure(t, IF fr[t].path = "fast" THEN client ELSE fr[t].link,
                   fr[t], now + PIN_SETTLE)

\* ------------------------------------------------------------ attribute I/O
\* mutant: a failed attribute read or write drops the link reference and the flag
SessionClearedOnIoError(s) == <<None, FALSE>>

\* client.py 245-255, 269-280, 297-299: no handler stands between the
\* attribute I/O and the end of the call: _client and _pin_sent as the
\* exception leaves them
SessionAfterIoError(s) == s

\* client.py 245, 269, 297: the read or write raises
IoFail(t) ==
    /\ pc[t] = "io"
    /\ client' = SessionAfterIoError(session)[1]
    /\ pin_sent' = SessionAfterIoError(session)[2]
    /\ UNCHANGED <<config, issued, units, lockWaiters, linkState, pinWrites, pinSettled, opener>>
    /\ Raise(t, "BleakError")

\* mutant: after a decoding failure the call connects and reads again
OnDecodeErrorReread(t) == Goto(t, "ensure", NoFrame, now)

\* client.py 248, 251-252, 272, 275-276: raise EtrvBleError(...)
OnDecodeError(t) == Raise(t, "EtrvBleError")

\* client.py 246-252, 270-276: the read returned, decoding raises (no secret
\* key, or a payload etrv_decode rejects)
IoDecodeFail(t) ==
    /\ pc[t] = "io"
    /\ linkState[cl[t]] = "up"
    /\ call[t].op \in {"read", "read_many"}
    /\ call[t].crypt
    /\ UNCHANGED <<session, config, issued, units, lockWaiters, linkState, pinWrites, pinSettled, opener>>
    /\ OnDecodeError(t)

\* mutant: data read is returned whether or not there is a key to decode it
DecodedAnyway(t) == TRUE

\* client.py 246-248, 270-272: a read goes on past the decoding step if it
\* asked for none or the session has a secret key
Decoded(t) == call[t].op = "write" \/ ~call[t].crypt \/ has_secret

\* client.py 268-277: async_read_many goes on to its next attribute
IoNext(t) ==
    /\ pc[t] = "io"
    /\ linkState[cl[t]] = "up"
    /\ Decoded(t)
    /\ call[t].idx < Len(call[t].uuids)
    /\ call' = [call EXCEPT ![t].idx = @ + 1]
    /\ encIO' = IF call[t].crypt THEN encIO \cup {cl[t]} ELSE encIO
    /\ UNCHANGED <<session, config, issued, units, lock, linkState, pc, todo, fr, cl, result, now,
                   pinWrites, pinSettled, opener>>

\* client.py 253-255, 278-280, 298-299 with 68-72: the last attribute is done
IoLast(t) ==
    /\ pc[t] = "io"
    /\ linkState[cl[t]] = "up"
    /\ Decoded(t)
    /\ call[t].idx = Len(call[t].uuids)
    /\ UNCHANGED <<config, issued, units, lockWaiters, linkState, pinWrites, pinSettled, opener>>
    /\ IF stay_connected
       THEN /\ UNCHANGED session
            /\ Return(t)
       ELSE IF IsConnected(client)
       THEN /\ UNCHANGED session
            /\ Goto(t, "closing", [fr[t] EXCEPT !.link = client], now)
       ELSE /\ client' = None
            /\ pin_sent' = FALSE
            /\ Return(t)

\* client.py 70-72 called from 254, 279, 299: the transport disconnect returned
CloseOk(t) ==
    /\ pc[t] = "closing"
    /\ linkState' = [linkState EXCEPT ![fr[t].link] = "down"]
    /\ client' = None
    /\ pin_sent' = FALSE
    /\ UNCHANGED <<config, issued, units, lockWaiters, pinWrites, pinSettled, opener>>
    /\ Return(t)

\* client.py 70: the transport disconnect raises
CloseError(t) ==
    /\ pc[t] = "closing"
    /\ UNCHANGED <<session, config, issued, units, lockWaiters, linkState, pinWrites, pinSettled, opener>>
    /\ Raise(t, "BleakError")

\* ------------------------------------------- async_disconnect from outside
\* coordinator.py 66-67 -> client.py 68-72, called without the lock
DisconnectCall(u) ==
    /\ pc[u] = "idle"
    /\ IF IsConnected(client)
       THEN /\ pc' = [pc EXCEPT ![u] = "closing"]
            /\ fr' = [fr EXCEPT ![u] = [NoFrame EXCEPT !.link = client]]
            /\ UNCHANGED session
       ELSE /\ client' = None
            /\ pin_sent' = FALSE
            /\ UNCHANGED <<pc, fr>>
    /\ UNCHANGED <<config, issued, units, lock, linkState, call, todo, cl, result, now, history>>

DisconnectOk(u) ==
    /\ pc[u] = "closing"
    /\ linkState' = [linkState EXCEPT ![fr[u].link] = "down"]
    /\ client' = None
    /\ pin_sent' = FALSE
    /\ pc' = [pc EXCEPT ![u] = "idle"]
    /\ fr' = [fr EXCEPT ![u] = NoFrame]
    /\ UNCHANGED <<config, issued, units, lock, call, todo, cl, result, now, history>>

DisconnectError(u) ==
    /\ pc[u] = "closing"
    /\ pc' = [pc EXCEPT ![u] = "idle"]
    /\ fr' = [fr EXCEPT ![u] = NoFrame]
    /\ UNCHANGED <<session, config, issued, units, lock, linkState, call, todo, cl, result, now, history>>

\* -------------------------------------------------------------- environment
\* The radio link drops: BleakClient.is_connected becomes false.
LinkDrop(l) ==
    /\ linkState[l] = "up"
    /\ linkState' = [linkState EXCEPT ![l] = "down"]
    /\ UNCHANGED <<session, config, issued, units, lock, pc, call, todo, fr, cl, result, now, history>>

\* ----------------------------------------------------------------- accessor
\* const.py 29-33: the attributes the facade does not use
UUID_PIN == "pin"
UUID_SETTINGS == "settings"
UUID_CURRENT_TIME == "current_time"

Attributes == {UUID_BATTERY, UUID_PIN, UUID_SETTINGS, UUID_TEMPERATURE,
               UUID_NAME, UUID_CURRENT_TIME, UUID_SECRET_KEY}

\* const.py 39-46: the cached handles; UUID_CURRENT_TIME has none
HANDLE_MAP ==
    (UUID_BATTERY :> 16) @@ (UUID_PIN :> 36) @@ (UUID_SETTINGS :> 42) @@
    (UUID_TEMPERATURE :> 45) @@ (UUID_NAME :> 48) @@ (UUID_SECRET_KEY :> 63)

\* How one BleakClient.read_gatt_char / write_gatt_char call ends: it returns,
\* or raises a BleakError, a TimeoutError, a TypeError whose message contains
\* "timeout", or another TypeError.
TransportOutcomes ==
    {"ok", "BleakError", "TimeoutError", "TypeError:timeout", "TypeError"}

\* mutant: every TypeError is taken for an unsupported timeout argument
RetriesOnAnyTypeError(e) == e \in {"TypeError:timeout", "TypeError"}

\* client.py 185-186: except TypeError as err: if "timeout" in str(err)
RetriesWithoutTimeout(e) == e = "TypeError:timeout"

\* mutant: the handle attempt's handler also catches TimeoutError
FallsBackOnTimeout(e) == e \in {"BleakError", "TimeoutError"}

\* client.py 206, 226: except BleakError
FallsBack(e) == e = "BleakError"

\* client.py 184, 203, 213: only a read passes timeout=, on its first call
FirstCallKwarg(op) == op = "read"

\* The transport call in progress, as it will stand in gatt.calls
PendingCall(o) == [target |-> gatt.target, kwarg |-> gatt.kwarg, outcome |-> o]

\* client.py 199-203, 221-224: _read_gatt_char / _write_gatt_char is called
GattBegin(op, uuid) ==
    /\ gatt.pc = "idle"
    /\ gatt' = [pc |-> "call", op |-> op, uuid |-> uuid,
                target |-> IF uuid \in DOMAIN HANDLE_MAP THEN "handle" ELSE "uuid",
                kwarg |-> FirstCallKwarg(op), calls |-> <<>>, out |-> "none"]
    /\ UNCHANGED <<session, config, issued, coord, rec, codec, keyread, lock, linkState, pc, call,
                   todo, fr, cl, result, now, history>>

\* client.py 184/192 and 205, 215, 225, 232: the transport call returns and
\* so does the accessor
GattReturn ==
    /\ gatt.pc = "call"
    /\ gatt' = [gatt EXCEPT !.pc = "returned", !.out = "ok",
                            !.calls = Append(@, PendingCall("ok"))]
    /\ UNCHANGED <<session, config, issued, coord, rec, codec, keyread, lock, linkState, pc, call,
                   todo, fr, cl, result, now, history>>

\* client.py 185-192: the call with timeout= raised the TypeError of an
\* unsupported argument; the same call is made without it
GattRetryNoTimeout(o) ==
    /\ gatt.pc = "call"
    /\ o # "ok"
    /\ gatt.kwarg
    /\ RetriesWithoutTimeout(o)
    /\ gatt' = [gatt EXCEPT !.kwarg = FALSE,
                            !.calls = Append(@, PendingCall(o))]
    /\ UNCHANGED <<session, config, issued, coord, rec, codec, keyread, lock, linkState, pc, call,
                   todo, fr, cl, result, now, history>>

\* client.py 206-213, 226-232: the handle attempt raised BleakError; the
\* identifier is tried
GattFallback(o) ==
    /\ gatt.pc = "call"
    /\ o # "ok"
    /\ ~(gatt.kwarg /\ RetriesWithoutTimeout(o))
    /\ gatt.target = "handle"
    /\ FallsBack(o)
    /\ gatt' = [gatt EXCEPT !.target = "uuid", !.kwarg = FirstCallKwarg(gatt.op),
                            !.calls = Append(@, PendingCall(o))]
    /\ UNCHANGED <<session, config, issued, coord, rec, codec, keyread, lock, linkState, pc, call,
                   todo, fr, cl, result, now, history>>

\* client.py 193 (raise), or no handler applies: the exception leaves the
\* accessor
GattRaise(o) ==
    /\ gatt.pc = "call"
    /\ o # "ok"
    /\ ~(gatt.kwarg /\ RetriesWithoutTimeout(o))
    /\ ~(gatt.target = "handle" /\ FallsBack(o))
    /\ gatt' = [gatt EXCEPT !.pc = "raised", !.out = o,
                            !.calls = Append(@, PendingCall(o))]
    /\ UNCHANGED <<session, config, issued, coord, rec, codec, keyread, lock, linkState, pc, call,
                   todo, fr, cl, result, now, history>>

\* ------------------------------------------------------------------ records
\* Temperatures are counted in units of 0.05 degrees, bytes are 0..255.
\* const.py 48-49
MIN_TEMP_C == 200
MAX_TEMP_C == 800
\* structs.py 11: one raw unit is 0.5 degrees
RAW_UNIT == 10

\* how far beyond [MIN_TEMP_C, MAX_TEMP_C] the targets tried reach
TargetMargin == 100

Targets == (MIN_TEMP_C - TargetMargin)..(MAX_TEMP_C + TargetMargin)

\* Decoded temperature payloads: setpoint byte, room byte, then bytes the
\* client does not interpret.
Payloads ==
    { <<40, 48, 170, 187>>,
      <<40, 48, 170, 187, 0, 255, 1, 2>>,
      <<255, 0, 30, 30, 30, 30, 30, 30>>,
      <<20, 80>> }

\* structs.py 10-11: _to_temperature
to_temperature(raw) == raw * RAW_UNIT

\* structs.py 14-15: _from_temperature, int(value * 2): int() drops the
\* fraction
from_temperature(value) ==
    IF value >= 0 THEN value \div RAW_UNIT ELSE -((-value) \div RAW_UNIT)

\* mutant: only the upper limit is applied
ClampUpperOnly(target) == Min(MAX_TEMP_C, target)

\* device.py 58: bounded = max(MIN_TEMP_C, min(MAX_TEMP_C, temperature))
Clamp(target) == Max(MIN_TEMP_C, Min(MAX_TEMP_C, target))

\* mutant: the payload is rebuilt from the two fields the record models
with_set_point_rebuilt(raw, set_point) == <<from_temperature(set_point), raw[2]>>

\* structs.py 43-46: TemperatureData.with_set_point on the record whose _raw
\* is raw
with_set_point(raw, set_point) ==
    [raw EXCEPT ![1] = from_temperature(set_point)]

\* device.py 58-63: set_temperature clamps the target and asks for the record
RecBegin(target) ==
    /\ rec.pc = "idle"
    /\ rec' = [rec EXCEPT !.pc = "read", !.target = target,
                          !.bounded = Clamp(target)]
    /\ UNCHANGED <<session, config, issued, coord, gatt, codec, keyread, lock, linkState, pc, call,
                   todo, fr, cl, result, now, history>>

\* device.py 64-66: the decoded record has come; the payload to encode and
\* write is made from it
RecRead(raw) ==
    /\ rec.pc = "read"
    /\ rec' = [rec EXCEPT !.pc = "write", !.raw = raw,
                          !.payload = with_set_point(raw, rec.bounded)]
    /\ UNCHANGED <<session, config, issued, coord, gatt, codec, keyread, lock, linkState, pc, call,
                   todo, fr, cl, result, now, history>>

\* device.py 57, 66-71: async_set_temperature is declared -> None and ends
\* after the write without a return statement; <<>> stands for None, <<v>>
\* for the value v
SetTemperatureReturn(bounded) == <<>>

\* device.py 66-71: the write has been acknowledged and set_temperature
\* returns
RecReturn ==
    /\ rec.pc = "write"
    /\ rec' = [rec EXCEPT !.pc = "done", !.ret = SetTemperatureReturn(rec.bounded)]
    /\ UNCHANGED <<session, config, issued, coord, gatt, codec, keyread, lock, linkState, pc, call,
                   todo, fr, cl, result, now, history>>

\* -------------------------------------------------------------------- codec
\* crypto.py 38, 45: xxtea.encrypt / xxtea.decrypt with padding=False, the
\* XXTEA block cipher on 32-bit words taken little-endian from the bytes, with
\* a key of four words. A word is the pair <<high half, low half>> of its two
\* 16-bit halves.
Half == Pow2(16)

\* xor of two bytes, of two 16-bit halves
RECURSIVE Xor8(_, _)
Xor8(a, b) ==
    IF a = 0 THEN b
    ELSE IF b = 0 THEN a
    ELSE ((a + b) % 2) + 2 * Xor8(a \div 2, b \div 2)

Xor16(a, b) ==
    Xor8(a \div 256, b \div 256) * 256 + Xor8(a % 256, b % 256)

XorW(x, y) == <<Xor16(x[1], y[1]), Xor16(x[2], y[2])>>

AddW(x, y) ==
    LET lo == x[2] + y[2]
    IN  <<(x[1] + y[1] + (lo \div Half)) % Half, lo % Half>>

SubW(x, y) ==
    LET borrow == IF x[2] < y[2] THEN 1 ELSE 0
    IN  <<(x[1] - y[1] - borrow + Half) % Half, (x[2] - y[2] + Half) % Half>>

\* x >> k and x << k on 32 bits, 0 < k < 16
ShrW(x, k) ==
    <<x[1] \div Pow2(k), (x[2] \div Pow2(k)) + (x[1] % Pow2(k)) * Pow2(16 - k)>>

ShlW(x, k) ==
    <<((x[1] * Pow2(k)) % Half) + (x[2] \div Pow2(16 - k)), (x[2] * Pow2(k)) % Half>>

\* 0x9e3779b9
DELTA == <<40503, 31161>>

\* (((z>>5 ^ y<<2) + (y>>3 ^ z<<4)) ^ ((sum ^ y) + (key[(p&3) ^ e] ^ z))),
\* p counted from 0
MX(sum, y, z, p, e, key) ==
    XorW(AddW(XorW(ShrW(z, 5), ShlW(y, 2)), XorW(ShrW(y, 3), ShlW(z, 4))),
         AddW(XorW(sum, y), XorW(key[Xor16(p % 4, e) + 1], z)))

\* e = (sum >> 2) & 3
KeyShift(sum) == (sum[2] \div 4) % 4

\* rounds = 6 + 52 / n
Rounds(n) == 6 + (52 \div n)

\* One round of encryption from word p (counted from 0) on: v[p] += MX with
\* y the next word (cyclically) and z the word before, as just updated.
RECURSIVE EncPass(_, _, _, _, _)
EncPass(v, p, z, sum, key) ==
    IF p = Len(v) THEN v
    ELSE LET y == v[((p + 1) % Len(v)) + 1]
             w == AddW(v[p + 1], MX(sum, y, z, p, KeyShift(sum), key))
         IN  EncPass([v EXCEPT ![p + 1] = w], p + 1, w, sum, key)

\* i * DELTA, the value of sum in round i
RECURSIVE TimesDelta(_)
TimesDelta(i) ==
    IF i = 0 THEN <<0, 0>>
    ELSE LET h == TimesDelta(i \div 2)
             d == AddW(h, h)
         IN  IF i % 2 = 0 THEN d ELSE AddW(d, DELTA)

\* Round i of encryption: sum += DELTA, then the pass with z the last word.
EncRound(v, i, key) == EncPass(v, 0, v[Len(v)], TimesDelta(i), key)

\* Rounds lo..hi of encryption, in this order (the test on the length has the
\* first half evaluated before the second starts).
RECURSIVE EncRounds(_, _, _, _)
EncRounds(v, lo, hi, key) ==
    IF lo > hi THEN v
    ELSE IF lo = hi THEN EncRound(v, lo, key)
    ELSE LET mid == (lo + hi) \div 2
             u == EncRounds(v, lo, mid, key)
         IN  IF Len(u) = Len(v) THEN EncRounds(u, mid + 1, hi, key) ELSE u

\* One round of decryption from word p (counted from 0) down: v[p] -= MX with
\* z the word before (cyclically) and y the word after, as just updated.
RECURSIVE DecPass(_, _, _, _, _)
DecPass(v, p, y, sum, key) ==
    IF p < 0 THEN v
    ELSE LET z == v[((p + Len(v) - 1) % Len(v)) + 1]
             w == SubW(v[p + 1], MX(sum, y, z, p, KeyShift(sum), key))
         IN  DecPass([v EXCEPT ![p + 1] = w], p - 1, w, sum, key)

\* Round i of decryption, counted as in encryption: the pass with y the first
\* word, then sum -= DELTA.
DecRound(v, i, key) == DecPass(v, Len(v) - 1, v[1], TimesDelta(i), key)

\* Rounds hi..lo of decryption, in this order.
RECURSIVE DecRounds(_, _, _, _)
DecRounds(v, lo, hi, key) ==
    IF lo > hi THEN v
    ELSE IF lo = hi THEN DecRound(v, lo, key)
    ELSE LET mid == (lo + hi) \div 2
             u == DecRounds(v, mid + 1, hi, key)
         IN  IF Len(u) = Len(v) THEN DecRounds(u, lo, mid, key) ELSE u

\* bytes to little-endian words and back
ToWords(bytes) ==
    [i \in 1..(Len(bytes) \div 4) |->
        <<bytes[4 * i] * 256 + bytes[4 * i - 1],
          bytes[4 * i - 2] * 256 + bytes[4 * i - 3]>>]

ToBytes(words) ==
    [i \in 1..(4 * Len(words)) |->
        LET w == words[((i - 1) \div 4) + 1]
            k == (i - 1) % 4
        IN  IF k = 0 THEN w[2] % 256
            ELSE IF k = 1 THEN w[2] \div 256
            ELSE IF k = 2 THEN w[1] % 256
            ELSE w[1] \div 256]

\* xxtea.encrypt(data, key, padding=False) on at least two words
xxtea_encrypt(data, key) ==
    LET v == ToWords(data)
    IN  ToBytes(EncRounds(v, 1, Rounds(Len(v)), ToWords(key)))

\* xxtea.decrypt(data, key, padding=False) on at least two words
xxtea_decrypt(data, key) ==
    LET v == ToWords(data)
    IN  ToBytes(DecRounds(v, 1, Rounds(Len(v)), ToWords(key)))

\* crypto.py 12-16: _reverse_chunks, each run of four bytes reversed (a
\* shorter last run too)
ReverseChunks(data) ==
    [i \in 1..Len(data) |->
        LET first == 4 * ((i - 1) \div 4) + 1
            last == Min(first + 3, Len(data))
        IN  data[first + last - i]]

\* How xxtea.encrypt(padding=False) answers a block of fewer than two words:
\* it refuses it, or has nothing to mix and hands it back.
XxteaShortBlock == {"ValueError", "unchanged"}

\* crypto.py 43-47: etrv_encode
etrv_encode(data, key, short) ==
    IF Len(data) >= 8 /\ Len(data) % 4 = 0
    THEN [ok |-> TRUE, err |-> <<>>,
          out |-> ReverseChunks(xxtea_encrypt(ReverseChunks(data), key))]
    ELSE IF Len(data) = 4 /\ short = "unchanged"
    THEN [ok |-> TRUE, err |-> <<>>, out |-> data]
    ELSE [ok |-> FALSE, err |-> <<"ValueError">>, out |-> <<>>]

\* mutant: lengths 4..7 get past the first length check
TooShortBelow4(data) == Len(data) < 4

\* crypto.py 20: if len(data) < 8
TooShort(data) == Len(data) < 8

\* mutant: the input of the cipher is not chunk-reversed
DecodeInputAsIs(data) == data

\* crypto.py 37: data = _reverse_chunks(data)
DecodeInput(data) == ReverseChunks(data)

\* crypto.py 19-40: etrv_decode; ran tells whether xxtea.decrypt was called
etrv_decode(data, key) ==
    IF TooShort(data)
    THEN IF Len(data) = 1
         THEN [ok |-> FALSE, ran |-> FALSE, out |-> <<>>,
               err |-> <<"EtrvDecodeError", "device_error_code", data[1]>>]
         ELSE [ok |-> FALSE, ran |-> FALSE, out |-> <<>>,
               err |-> <<"EtrvDecodeError", "length_below_8", Len(data)>>]
    ELSE IF Len(data) % 4 # 0
    THEN [ok |-> FALSE, ran |-> FALSE, out |-> <<>>,
          err |-> <<"EtrvDecodeError", "length_not_multiple_of_4", Len(data)>>]
    ELSE [ok |-> TRUE, ran |-> TRUE, err |-> <<>>,
          out |-> ReverseChunks(xxtea_decrypt(DecodeInput(data), key))]

\* ---- inputs of the codec
\* most words of a buffer to encode
MaxChunks == 3
\* most bytes of a value received from the device
MaxWire == 12
\* number of byte patterns tried
MaxSeed == 3

Fill(b, n) == [i \in 1..n |-> b]
Pattern(seed, n) == [i \in 1..n |-> (seed * 37 + i * 101) % 256]
Shapes(n) == {Fill(0, n), Fill(255, n)} \cup {Pattern(s, n) : s \in 1..MaxSeed}

\* 16-byte keys
Keys == {Fill(0, 16), Fill(255, 16), Pattern(1, 16)}
\* plaintexts whose length is a positive multiple of 4
Buffers == UNION {Shapes(4 * k) : k \in 1..MaxChunks}
\* values an encrypted attribute read may return, of any length
WireValues == UNION {Shapes(n) : n \in 0..MaxWire}

\* client.py 296: a payload is encoded for writing
CodecEncode(data, key, short) ==
    /\ codec.pc = "idle"
    /\ LET r == etrv_encode(data, key, short)
       IN  codec' = [codec EXCEPT !.pc = IF r.ok THEN "encoded" ELSE "encode_failed",
                                  !.data = data, !.key = key,
                                  !.wire = r.out, !.err = r.err]
    /\ UNCHANGED <<session, config, issued, coord, gatt, rec, keyread, lock, linkState, pc, call,
                   todo, fr, cl, result, now, history>>

\* client.py 245, 269: an attribute read has returned bytes to decode
CodecReceive(wire, key) ==
    /\ codec.pc = "idle"
    /\ codec' = [codec EXCEPT !.pc = "received", !.key = key, !.wire = wire]
    /\ UNCHANGED <<session, config, issued, coord, gatt, rec, keyread, lock, linkState, pc, call,
                   todo, fr, cl, result, now, history>>

\* client.py 250, 274: etrv_decode of what was encoded or received
CodecDecode ==
    /\ codec.pc \in {"encoded", "received"}
    /\ LET r == etrv_decode(codec.wire, codec.key)
       IN  codec' = [codec EXCEPT !.pc = IF r.ok THEN "decoded" ELSE "decode_failed",
                                  !.out = r.out, !.err = r.err, !.ran = r.ran]
    /\ UNCHANGED <<session, config, issued, coord, gatt, rec, keyread, lock, linkState, pc, call,
                   todo, fr, cl, result, now, history>>

\* --------------------------------------------------------------- secret key
\* client.py 320: data[:16]
KEY_BYTES == 16

\* most bytes of a response to the secret-key read
MaxKeyWire == 20

\* values the plain read of the secret-key attribute may return
KeyResponses == UNION {Shapes(n) : n \in 0..MaxKeyWire}

HexDigits ==
    <<"0", "1", "2", "3", "4", "5", "6", "7", "8", "9", "a", "b", "c", "d", "e", "f">>

\* bytes.hex(): two lowercase digits per byte, the high one first
Hex(bytes) ==
    [i \in 1..(2 * Len(bytes)) |->
        LET b == bytes[(i + 1) \div 2]
        IN  HexDigits[(IF i % 2 = 1 THEN b \div 16 ELSE b % 16) + 1]]

\* data[:n]: the first n bytes, or all of them when there are fewer
FirstBytes(data, n) == SubSeq(data, 1, Min(n, Len(data)))

\* client.py 317-319: the plain read of async_get_secret_key has returned data
KeyReceive(data) ==
    /\ keyread.pc = "idle"
    /\ keyread' = [keyread EXCEPT !.pc = "received", !.data = data]
    /\ UNCHANGED <<session, config, issued, coord, gatt, rec, codec, lock, linkState, pc,
                   call, todo, fr, cl, result, now, history>>

\* client.py 320: return data[:16].hex()
KeyReturn ==
    /\ keyread.pc = "received"
    /\ keyread' = [keyread EXCEPT !.pc = "returned",
                                  !.value = Hex(FirstBytes(keyread.data, KEY_BYTES))]
    /\ UNCHANGED <<session, config, issued, coord, gatt, rec, codec, lock, linkState, pc,
                   call, todo, fr, cl, result, now, history>>

\* -------------------------------------------------------------- coordinator
\* number of setpoints followed, applied or pending
MaxRequests == 3

\* the setpoints asked for
Setpoints == {MIN_TEMP_C, (MIN_TEMP_C + MAX_TEMP_C) \div 2, MAX_TEMP_C}

\* coordinator.py 77-79: async_set_temperature stores the value and calls the
\* debouncer (cooldown, immediate=False), which arms its timer; a call made
\* while _async_apply_setpoint is running is dropped or kept for a later run
\* (accepted), as the debouncer decides.
CoordSetTemperature(v, accepted) ==
    /\ Len(coord.applied) + (IF coord.pending = <<>> THEN 0 ELSE 1) < MaxRequests
    /\ coord' = [coord EXCEPT !.pending = <<v>>, !.requested = <<v>>,
                              !.timer = IF coord.pc = "idle" THEN TRUE
                                        ELSE (coord.timer \/ accepted)]
    /\ UNCHANGED <<session, config, issued, gatt, rec, codec, keyread, lock,
                   linkState, pc, call, todo, fr, cl, result, now, history>>

\* coordinator.py 81-85: the debouncer runs _async_apply_setpoint, which
\* returns if nothing is pending and else passes the pending value to
\* EtrvDevice.async_set_temperature
CoordApplyBegin ==
    /\ coord.timer
    /\ coord.pc = "idle"
    /\ coord' = IF coord.pending = <<>>
                THEN [coord EXCEPT !.timer = FALSE]
                ELSE [coord EXCEPT !.timer = FALSE, !.pc = "applying",
                                   !.applied = Append(@, coord.pending[1])]
    /\ UNCHANGED <<session, config, issued, gatt, rec, codec, keyread, lock,
                   linkState, pc, call, todo, fr, cl, result, now, history>>

\* coordinator.py 85-90: the device call has returned or raised; finally:
\* self._pending_setpoint = None
CoordApplyEnd ==
    /\ coord.pc = "applying"
    /\ coord' = [coord EXCEPT !.pc = "idle", !.pending = <<>>]
    /\ UNCHANGED <<session, config, issued, gatt, rec, codec, keyread, lock,
                   linkState, pc, call, todo, fr, cl, result, now, history>>

\* ------------------------------------------------------------ specifications
\* The coordinator's session: the poll runs read_state, the command caller runs
\* set_temperature, both on a paired session, while the unload may disconnect
\* it and the link may drop.
Next ==
    \/ Issue("poll", async_read_state)
    \/ Issue("command", async_set_temperature)
    \/ \E t \in OpTasks : BeginCall(t)
    \/ \E t \in OpTasks : LockGranted(t)
    \/ \E t \in OpTasks : EnsureEntry(t)
    \/ \E t \in OpTasks : LoopTimeout(t)
    \/ \E t \in OpTasks : LoopTop(t, "session")
    \/ \E t \in OpTasks : EvictDone(t, "session")
    \/ \E t \in OpTasks : ConnectOk(t, "session")
    \/ \E t \in OpTasks : ConnectTimeout(t, "session")
    \/ \E t \in OpTasks : SleepDone(t)
    \/ \E t \in OpTasks : PinWriteOk(t, "session")
    \/ \E t \in OpTasks : PinWriteError(t)
    \/ \E t \in OpTasks : PinWriteTimeout(t, "session")
    \/ \E t \in OpTasks : PinSettleDone(t)
    \/ \E t \in OpTasks : IoFail(t)
    \/ \E t \in OpTasks : IoDecodeFail(t)
    \/ \E t \in OpTasks : IoNext(t)
    \/ \E t \in OpTasks : IoLast(t)
    \/ \E t \in OpTasks : CloseOk(t)
    \/ \E t \in OpTasks : CloseError(t)
    \/ \E u \in DiscTasks : DisconnectCall(u)
    \/ \E u \in DiscTasks : DisconnectOk(u)
    \/ \E u \in DiscTasks : DisconnectError(u)
    \/ \E l \in Links : LinkDrop(l)

InitPaired == Init /\ has_secret = TRUE

Spec == InitPaired /\ [][Next]_vars

\* A step of the call a task has started.
CallStep(t) ==
    \/ BeginCall(t)
    \/ LockGranted(t)
    \/ EnsureEntry(t)
    \/ LoopTimeout(t)
    \/ LoopTop(t, "session")
    \/ EvictDone(t, "session")
    \/ ConnectOk(t, "session")
    \/ ConnectTimeout(t, "session")
    \/ SleepDone(t)
    \/ PinWriteOk(t, "session")
    \/ PinWriteError(t)
    \/ PinWriteTimeout(t, "session")
    \/ PinSettleDone(t)
    \/ IoFail(t)
    \/ IoDecodeFail(t)
    \/ IoNext(t)
    \/ IoLast(t)
    \/ CloseOk(t)
    \/ CloseError(t)

\* The coordinator's session with every await of a call coming back: the
\* event loop runs each task that is ready.
SpecFair == InitPaired /\ [][Next]_vars /\ \A t \in OpTasks : WF_vars(CallStep(t))

\* One caller runs facade operations one after the other, on a session with or
\* without a secret key, while the coordinator may disconnect it and the link
\* may drop.
Solo == "poll"

NextSolo ==
    \/ \E s \in FacadeOps : Issue(Solo, s)
    \/ BeginCall(Solo)
    \/ EnsureEntry(Solo)
    \/ LoopTimeout(Solo)
    \/ LoopTop(Solo, "session")
    \/ EvictDone(Solo, "session")
    \/ ConnectOk(Solo, "session")
    \/ ConnectTimeout(Solo, "session")
    \/ ConnectError(Solo, "session")
    \/ SleepDone(Solo)
    \/ PinWriteOk(Solo, "session")
    \/ PinWriteError(Solo)
    \/ PinWriteTimeout(Solo, "session")
    \/ PinSettleDone(Solo)
    \/ IoFail(Solo)
    \/ IoDecodeFail(Solo)
    \/ IoNext(Solo)
    \/ IoLast(Solo)
    \/ CloseOk(Solo)
    \/ CloseError(Solo)
    \/ \E u \in DiscTasks : DisconnectCall(u)
    \/ \E u \in DiscTasks : DisconnectOk(u)
    \/ \E u \in DiscTasks : DisconnectError(u)
    \/ \E l \in Links : LinkDrop(l)

SpecSolo == Init /\ [][NextSolo]_vars

\* One call of async_read with any timeout, with or without the PIN, on a
\* paired session that stays connected; the durations, the jitter and the
\* outcomes of the connect loop are drawn freely.
RawReads ==
    { <<ReadCall(UUID_TEMPERATURE, TRUE, sp, <<to>>)>> :
          sp \in BOOLEAN, to \in Timeouts }

InitConnect == Init /\ has_secret = TRUE /\ stay_connected = TRUE

NextConnect ==
    \/ \E s \in RawReads : issued = 0 /\ Issue(Solo, s)
    \/ BeginCall(Solo)
    \/ EnsureEntry(Solo)
    \/ LoopTimeout(Solo)
    \/ LoopTop(Solo, "connect")
    \/ EvictDone(Solo, "connect")
    \/ ConnectOk(Solo, "connect")
    \/ ConnectTimeout(Solo, "connect")
    \/ ConnectError(Solo, "connect")
    \/ SleepDone(Solo)
    \/ PinWriteOk(Solo, "connect")
    \/ PinWriteError(Solo)
    \/ PinWriteTimeout(Solo, "connect")
    \/ PinSettleDone(Solo)
    \/ IoFail(Solo)
    \/ IoDecodeFail(Solo)
    \/ IoLast(Solo)

SpecConnect == InitConnect /\ [][NextConnect]_vars

\* a reading of time.monotonic() below the stale interval, in ticks
EarlyUptime == 200

Uptimes == {EarlyUptime, BootUptime}

\* One call of async_read as in SpecConnect, entered at either reading of the
\* monotonic clock.
NextUptime ==
    \/ \E s \in RawReads : issued = 0 /\ Issue(Solo, s)
    \/ BeginCall(Solo)
    \/ \E uptime \in Uptimes : EnsureEntryAt(Solo, uptime)
    \/ LoopTimeout(Solo)
    \/ LoopTop(Solo, "connect")
    \/ EvictDone(Solo, "connect")
    \/ ConnectOk(Solo, "connect")
    \/ ConnectTimeout(Solo, "connect")
    \/ ConnectError(Solo, "connect")
    \/ SleepDone(Solo)
    \/ PinWriteOk(Solo, "connect")
    \/ PinWriteError(Solo)
    \/ PinWriteTimeout(Solo, "connect")
    \/ PinSettleDone(Solo)
    \/ IoFail(Solo)
    \/ IoDecodeFail(Solo)
    \/ IoLast(Solo)

SpecUptime == InitConnect /\ [][NextUptime]_vars

\* longest timeout of the calls followed to their end, in ticks
MaxBriefTimeout == 200

BriefReads ==
    { <<ReadCall(UUID_TEMPERATURE, TRUE, sp, <<to>>)>> :
          sp \in BOOLEAN, to \in {0, CONNECT_RETRY_DELAY, MaxBriefTimeout} }

\* One async_read call with a timeout of a few seconds at most, followed to
\* its end.
NextRetry ==
    \/ \E s \in BriefReads : issued = 0 /\ Issue(Solo, s)
    \/ BeginCall(Solo)
    \/ EnsureEntry(Solo)
    \/ LoopTimeout(Solo)
    \/ LoopTop(Solo, "connect")
    \/ EvictDone(Solo, "connect")
    \/ ConnectOk(Solo, "connect")
    \/ ConnectTimeout(Solo, "connect")
    \/ ConnectError(Solo, "connect")
    \/ SleepDone(Solo)
    \/ PinWriteOk(Solo, "connect")
    \/ PinWriteError(Solo)
    \/ PinWriteTimeout(Solo, "connect")
    \/ PinSettleDone(Solo)
    \/ IoFail(Solo)
    \/ IoDecodeFail(Solo)
    \/ IoLast(Solo)

\* Every await comes back: the event loop runs whatever step is ready.
SpecRetryFair == InitConnect /\ [][NextRetry]_vars /\ WF_vars(NextRetry)

\* One accessor call, a read or a write of any attribute, with every outcome
\* of each transport call it makes.
NextGatt ==
    \/ \E op \in {"read", "write"}, uuid \in Attributes : GattBegin(op, uuid)
    \/ GattReturn
    \/ \E o \in TransportOutcomes : GattRetryNoTimeout(o)
    \/ \E o \in TransportOutcomes : GattFallback(o)
    \/ \E o \in TransportOutcomes : GattRaise(o)

SpecGatt == InitConnect /\ [][NextGatt]_vars

\* One set_temperature computation, for every target and payload tried.
NextRecord ==
    \/ \E target \in Targets : RecBegin(target)
    \/ \E raw \in Payloads : RecRead(raw)
    \/ RecReturn

SpecRecord == InitConnect /\ [][NextRecord]_vars

\* One codec computation: a buffer is encoded and decoded again, or a value
\* received is decoded.
NextCodec ==
    \/ \E data \in Buffers, key \in Keys, short \in XxteaShortBlock :
          CodecEncode(data, key, short)
    \/ \E wire \in WireValues, key \in Keys : CodecReceive(wire, key)
    \/ CodecDecode

SpecCodec == InitConnect /\ [][NextCodec]_vars

\* single client calls of every kind, encrypted or plain, with or without PIN
RawCalls ==
    { <<ReadCall(UUID_TEMPERATURE, crypt, sp, <<>>)>> : crypt, sp \in BOOLEAN } \cup
    { <<ReadManyCall(<<UUID_TEMPERATURE, UUID_NAME>>, crypt, sp)>> : crypt, sp \in BOOLEAN } \cup
    { <<WriteCall(UUID_TEMPERATURE, crypt, sp)>> : crypt, sp \in BOOLEAN }

InitUnpaired == Init /\ has_secret = FALSE

\* One caller makes single client calls on a session that has no secret key.
NextUnpaired ==
    \/ \E s \in RawCalls : Issue(Solo, s)
    \/ BeginCall(Solo)
    \/ EnsureEntry(Solo)
    \/ LoopTimeout(Solo)
    \/ LoopTop(Solo, "session")
    \/ EvictDone(Solo, "session")
    \/ ConnectOk(Solo, "session")
    \/ ConnectTimeout(Solo, "session")
    \/ ConnectError(Solo, "session")
    \/ SleepDone(Solo)
    \/ PinWriteOk(Solo, "session")
    \/ PinWriteError(Solo)
    \/ PinWriteTimeout(Solo, "session")
    \/ PinSettleDone(Solo)
    \/ IoFail(Solo)
    \/ IoDecodeFail(Solo)
    \/ IoNext(Solo)
    \/ IoLast(Solo)
    \/ CloseOk(Solo)
    \/ CloseError(Solo)
    \/ \E l \in Links : LinkDrop(l)

SpecUnpaired == InitUnpaired /\ [][NextUnpaired]_vars

\* One conversion of a response to the secret-key read into the string
\* async_get_secret_key returns.
NextKey ==
    \/ \E data \in KeyResponses : KeyReceive(data)
    \/ KeyReturn

SpecKey == InitConnect /\ [][NextKey]_vars

\* The command caller asks for setpoints while the debouncer applies them.
NextCoord ==
    \/ \E v \in Setpoints, accepted \in BOOLEAN : CoordSetTemperature(v, accepted)
    \/ CoordApplyBegin
    \/ CoordApplyEnd

SpecCoord == InitConnect /\ [][NextCoord]_vars

\* =================================================================== claims
\* The task is inside `async with self._lock`.
InCritical(t) ==
    pc[t] \in {"ensure", "loop", "evicting", "connecting", "sleeping",
               "pin_write", "pin_settle", "io", "closing"}

\* The task is inside the retry loop of _ensure_connected.
InLoop(t) == pc[t] \in {"loop", "evicting", "connecting", "sleeping"}

\* The task is at client.py 150: the loop has ended and the connect-timeout
\* error is being raised.
RaisingTimeout(t) == pc[t] = "loop" /\ fr[t].deadline - now <= 0

C2_PinBeforeEncrypted ==
    \A l \in encIO : pinWrites[l] >= 1 /\ pinSettled[l]

\* C2 witness: an encrypted read is in progress on a link that the battery read
\* (send_pin=False) had opened.
C2_Witness ==
    \E t \in OpTasks :
        /\ pc[t] = "io"
        /\ call[t].crypt
        /\ cl[t] \in encIO
        /\ ~opener[cl[t]]
        /\ linkState[cl[t]] = "up"

\* C3: the PIN-sent flag never refers to an earlier connection: while the
\* session holds a link and the flag is true, a PIN write on that very link
\* has been acknowledged.
C3_NoCarryOver ==
    (client # None /\ pin_sent) => pinWrites[client] >= 1

\* C3 witness: a new link has just been stored while the flag was true from
\* the connection before; the flag is false and the new link has no PIN yet.
C3_Witness ==
    \E t \in OpTasks :
        /\ fr[t].path = "slow"
        /\ fr[t].was_sent
        /\ client = fr[t].link
        /\ ~pin_sent
        /\ pinWrites[client] = 0

\* C4 (mutual exclusion): at most one of the calls async_read,
\* async_read_many, async_write is between acquiring and releasing the lock.
C4_MutualExclusion ==
    \A t1, t2 \in OpTasks : (InCritical(t1) /\ InCritical(t2)) => t1 = t2

\* C4 witness: one call is doing attribute I/O while the other caller's call
\* waits for the lock.
C4_Witness ==
    \E t1, t2 \in OpTasks :
        /\ pc[t1] = "io"
        /\ pc[t2] = "wait_lock"
        /\ lockHolder = t1

\* C5: async_disconnect never runs while a call of the session is in progress.
C5_DisconnectSerialized ==
    \A u \in DiscTasks :
        pc[u] = "closing" => \A t \in OpTasks : ~InCritical(t)

\* C6: after a PIN write has failed inside _ensure_connected the call has been
\* raised to the caller: the loop neither backs off nor tries again once a
\* link was established in this call.
C6_PinFailureFatal ==
    \A t \in OpTasks : InLoop(t) => fr[t].link = None

\* C10: when _ensure_connected raises the connect-timeout error, the session
\* holds no open link and is not marked PIN-authenticated.
C10_TimeoutLeavesDisconnected ==
    \A t \in OpTasks : RaisingTimeout(t) => (~IsConnected(client) /\ ~pin_sent)

\* The last link attempt of the call is over (its duration is recorded).
AttemptOver(t) ==
    fr[t].path = "slow" /\ fr[t].per_attempt > 0 /\ pc[t] # "connecting"

\* C7 (connection retry): a call that leaves the loop with a link has had
\* every earlier iteration fail and returns the link its last iteration
\* established; and whenever another iteration starts, the sleep just made is
\* not shorter than the one before, as long as the earlier one was computed
\* below the backoff cap.
C7_RetryBackoff ==
    \A t \in OpTasks :
        /\ (pc[t] = "io" /\ fr[t].path = "slow") =>
              /\ cl[t] = fr[t].link
              /\ fr[t].link_attempt = fr[t].attempt
              /\ fr[t].fails = fr[t].attempt - 1
        /\ (pc[t] = "loop" /\ fr[t].deadline - now > 0 /\ fr[t].attempt >= 2
                /\ CONNECT_RETRY_DELAY * Pow2(fr[t].attempt - 2) < CONNECT_BACKOFF_MAX) =>
              fr[t].prev_sleep <= fr[t].sleep_for

\* C7 witness: two iterations failed, the third established the link the call
\* returns, and the second sleep was longer than the first.
C7_Witness ==
    \E t \in OpTasks :
        /\ pc[t] = "io"
        /\ fr[t].path = "slow"
        /\ fr[t].attempt = 3
        /\ fr[t].fails = 2
        /\ fr[t].link_attempt = 3
        /\ fr[t].prev_sleep > 0
        /\ fr[t].prev_sleep < fr[t].sleep_for

\* C8 as claimed: whenever the connect-timeout error is raised it reports at
\* least one attempt and a last underlying error, whatever the timeout.
C8_AttemptReported ==
    \A t \in OpTasks :
        RaisingTimeout(t) => (fr[t].attempt >= 1 /\ fr[t].last_err # "None")

\* C8 as amended: as long as no iteration has established a link the call
\* stays in the loop, which only the connect-timeout error leaves; that error
\* reports at least one attempt and the last underlying error when the
\* timeout is positive, and no attempt and no error when the timeout is zero
\* or negative.
C8_AttemptReportedIfPositive ==
    \A t \in OpTasks :
        /\ (fr[t].path = "slow" /\ fr[t].link = None) => InLoop(t)
        /\ RaisingTimeout(t) =>
              IF fr[t].timeout > 0
              THEN fr[t].attempt >= 1 /\ fr[t].last_err # "None"
                   /\ fr[t].fails = fr[t].attempt
              ELSE fr[t].attempt = 0 /\ fr[t].last_err = "None"

\* C8 witness: with the shortest positive timeout every iteration failed and
\* the connect-timeout error is raised after an iteration that found no device.
C8_Witness ==
    \E t \in OpTasks :
        /\ RaisingTimeout(t)
        /\ fr[t].timeout = CONNECT_RETRY_DELAY
        /\ fr[t].link = None
        /\ fr[t].attempt >= 1
        /\ fr[t].last_err = "nodevice"

\* C9: a link attempt lasts no longer than the smaller of the 20 s attempt cap
\* and the time that remained to the deadline when it started.
C9_AttemptWithinDeadline ==
    \A t \in OpTasks :
        AttemptOver(t) =>
            fr[t].att_dur <= Min(CONNECT_ATTEMPT_TIMEOUT,
                                 fr[t].deadline - fr[t].started)

\* The bound client.py 117 does keep: a link attempt lasts no longer than 5 s
\* more than the smaller of the 20 s attempt cap and the time that remained to
\* the deadline at the top of its loop iteration.
AttemptWithinGrace ==
    \A t \in OpTasks :
        AttemptOver(t) =>
            fr[t].att_dur <= Min(CONNECT_ATTEMPT_TIMEOUT, fr[t].att_remaining)
                                 + ATTEMPT_GRACE

\* An attempt capped at 20 s was ended by the timeout 25 s after it started,
\* past the deadline of the call.
AttemptPastDeadline ==
    \E t \in OpTasks :
        /\ AttemptOver(t)
        /\ fr[t].att_remaining > CONNECT_ATTEMPT_TIMEOUT
        /\ fr[t].att_dur = CONNECT_ATTEMPT_TIMEOUT + ATTEMPT_GRACE
        /\ fr[t].started + fr[t].att_dur > fr[t].deadline

\* A client call of the task has ended, with a result or an exception other
\* than the connect-timeout error, and the task holds the lock no longer.
CallCompleted(t) ==
    /\ pc[t] \in {"idle", "next"}
    /\ result[t] \notin {NoResult, "EtrvBleTimeoutError"}

\* C11: with stay_connected false, once a call of the single caller has
\* completed, with a result or with an error, the session holds no open link
\* and its PIN-sent flag is false.
C11_ClosedAfterEveryCall ==
    ~stay_connected =>
        \A t \in OpTasks :
            CallCompleted(t) => (~IsConnected(client) /\ ~pin_sent)

\* C12: when a call that was in its attribute read or write ends with an
\* exception, that step leaves the link reference, the PIN-sent flag and the
\* state of every link as they were, and the lock is released.
C12_IoErrorKeepsSession ==
    [][\A t \in OpTasks :
          (pc[t] = "io" /\ pc'[t] = "idle" /\ result'[t] # "ok") =>
              /\ client' = client
              /\ pin_sent' = pin_sent
              /\ linkState' = linkState
              /\ lockHolder' = NoTask]_vars

\* C12 witness: a call has ended with the transport error of its attribute
\* I/O on a session that keeps its link; the link is still open and
\* authenticated and the lock is free.
C12_Witness ==
    \E t \in OpTasks :
        /\ stay_connected
        /\ pc[t] = "idle"
        /\ result[t] = "BleakError"
        /\ IsConnected(client)
        /\ pin_sent
        /\ lockHolder = NoTask

\* ----------------------------------------------------------- accessor claims
\* The accessor call has come back to its caller.
GattOver == gatt.pc \in {"returned", "raised"}

\* Number of times the accessor has gone down the path to the given target
\* (a read starts a path with the call that passes timeout=).
PathAttempts(target) ==
    Cardinality({i \in 1..Len(gatt.calls) :
                    /\ gatt.calls[i].target = target
                    /\ gatt.calls[i].kwarg = FirstCallKwarg(gatt.op)})

\* The outcome that ended the handle path, "none" if no call went to the handle.
HandleOutcome ==
    LET hs == {i \in 1..Len(gatt.calls) : gatt.calls[i].target = "handle"}
    IN  IF hs = {} THEN "none"
        ELSE gatt.calls[CHOOSE i \in hs : \A j \in hs : j <= i].outcome

\* What the caller gets is the outcome of the identifier path, tried once.
IdentifierOutcomeOnly ==
    /\ PathAttempts("uuid") = 1
    /\ gatt.calls[Len(gatt.calls)].target = "uuid"
    /\ gatt.out = gatt.calls[Len(gatt.calls)].outcome

\* C13 as claimed: an attribute with a cached handle is tried by handle first;
\* if the handle attempt failed, with a transport error or with a timeout, the
\* identifier path has been tried exactly once and the caller gets its
\* outcome and never the handle's failure; an attribute without a handle goes
\* straight to the identifier.
C13_HandleFallback ==
    GattOver =>
        IF gatt.uuid \in DOMAIN HANDLE_MAP
        THEN /\ gatt.calls[1].target = "handle"
             /\ PathAttempts("handle") = 1
             /\ HandleOutcome \in {"BleakError", "TimeoutError"} =>
                    IdentifierOutcomeOnly
        ELSE \A i \in 1..Len(gatt.calls) : gatt.calls[i].target = "uuid"

\* C13 as amended: the fallback is taken when the handle attempt raised
\* BleakError; any other exception of the handle attempt, TimeoutError
\* included, reaches the caller and the identifier is never tried.
C13_HandleFallbackOnBleakError ==
    GattOver =>
        IF gatt.uuid \in DOMAIN HANDLE_MAP
        THEN /\ gatt.calls[1].target = "handle"
             /\ PathAttempts("handle") = 1
             /\ HandleOutcome = "BleakError" => IdentifierOutcomeOnly
             /\ HandleOutcome \notin {"BleakError", "ok"} =>
                    /\ PathAttempts("uuid") = 0
                    /\ gatt.pc = "raised"
                    /\ gatt.out = HandleOutcome
             /\ HandleOutcome = "ok" =>
                    (PathAttempts("uuid") = 0 /\ gatt.pc = "returned")
        ELSE /\ PathAttempts("handle") = 0
             /\ PathAttempts("uuid") = 1
             /\ \A i \in 1..Len(gatt.calls) : gatt.calls[i].target = "uuid"

\* C13 witness: the handle read raised BleakError, the identifier read
\* returned, and the caller got the result.
C13_Witness ==
    /\ gatt.pc = "returned"
    /\ gatt.op = "read"
    /\ gatt.uuid = UUID_TEMPERATURE
    /\ HandleOutcome = "BleakError"
    /\ PathAttempts("uuid") = 1
    /\ gatt.out = "ok"

\* The call after gatt.calls[i]: the next one made, or the one in progress.
CallAfter(i) ==
    IF i < Len(gatt.calls)
    THEN [target |-> gatt.calls[i + 1].target, kwarg |-> gatt.calls[i + 1].kwarg]
    ELSE [target |-> gatt.target, kwarg |-> gatt.kwarg]

\* C14: in a read, every path starts with a call that passes the timeout; a
\* call without it is made exactly after a call with it raised the TypeError of
\* an unsupported timeout argument, to the same target; after any other
\* failure no call without the timeout follows.
C14_TimeoutArgumentFallback ==
    gatt.op = "read" =>
        /\ gatt.calls # <<>> => gatt.calls[1].kwarg
        /\ \A i \in 1..Len(gatt.calls) :
              LET c == gatt.calls[i]
                  unsupported == c.kwarg /\ c.outcome = "TypeError:timeout"
              IN  /\ unsupported =>
                        /\ i < Len(gatt.calls) \/ gatt.pc = "call"
                        /\ CallAfter(i) = [target |-> c.target, kwarg |-> FALSE]
                  /\ (~unsupported /\ (i < Len(gatt.calls) \/ gatt.pc = "call")) =>
                        CallAfter(i).kwarg

\* C14 witness: the read with timeout= raised the TypeError of the unsupported
\* argument and the read without it returned.
C14_Witness ==
    /\ gatt.pc = "returned"
    /\ gatt.op = "read"
    /\ Len(gatt.calls) = 2
    /\ gatt.calls[1].kwarg
    /\ gatt.calls[1].outcome = "TypeError:timeout"
    /\ ~gatt.calls[2].kwarg
    /\ gatt.calls[2].target = gatt.calls[1].target

\* ------------------------------------------------------------- record claims
\* C15: the payload set_temperature writes has the length of the payload read
\* and differs from it at most in its first byte.
C15_OnlySetpointByteChanges ==
    rec.pc = "write" =>
        /\ Len(rec.payload) = Len(rec.raw)
        /\ \A i \in 2..Len(rec.raw) : rec.payload[i] = rec.raw[i]

\* C15 witness: [0x28, 0x30, 0xAA, 0xBB] with a setpoint of 15.0 becomes
\* [0x1E, 0x30, 0xAA, 0xBB].
C15_Witness ==
    /\ rec.pc = "write"
    /\ rec.target = 300
    /\ rec.raw = <<40, 48, 170, 187>>
    /\ rec.payload = <<30, 48, 170, 187>>

\* C16: the setpoint byte written is within 20..80, a target above 40.0 is
\* written as 40.0 (80), one below 10.0 as 10.0 (20), and a target within
\* the range is encoded as it is.
C16_ClampBeforeEncoding ==
    rec.pc = "write" =>
        /\ rec.payload[1] \in 20..80
        /\ rec.target >= MAX_TEMP_C => rec.payload[1] = 80
        /\ rec.target <= MIN_TEMP_C => rec.payload[1] = 20
        /\ rec.target \in MIN_TEMP_C..MAX_TEMP_C =>
              rec.payload[1] = from_temperature(rec.target)

\* C16 witness: 41.0 is written as 80, with a record whose setpoint byte was
\* out of range before.
C16_Witness ==
    /\ rec.pc = "write"
    /\ rec.target = 820
    /\ rec.raw[1] = 255
    /\ rec.payload[1] = 80

\* The distance between x and y.
Dist(x, y) == IF x >= y THEN x - y ELSE y - x

\* C17: the setpoint byte is the raw value nearest to the (clamped) setpoint,
\* so what it decodes to is no more than half a raw unit away from it.
C17_EncodingRoundsToNearest ==
    rec.pc = "write" =>
        Dist(to_temperature(rec.payload[1]), rec.bounded) * 2 <= RAW_UNIT

\* -------------------------------------------------------------- codec claims
\* The round trip of a buffer has come to its end.
RoundTripOver ==
    codec.data # <<>> /\ codec.pc \in {"encode_failed", "decoded", "decode_failed"}

\* C18 as claimed: every buffer whose length is a positive multiple of 4, a
\* 4-byte one included, comes back unchanged from etrv_encode then etrv_decode.
C18_RoundTrip ==
    RoundTripOver => (codec.pc = "decoded" /\ codec.out = codec.data)

\* C18 as amended: a buffer of 8 bytes or more (a multiple of 4) is encoded to
\* as many bytes and comes back unchanged; a 4-byte buffer does not come back:
\* either the cipher or the length check of etrv_decode rejects it.
C18_RoundTripFromEightBytes ==
    codec.data # <<>> =>
        IF Len(codec.data) >= 8
        THEN /\ codec.pc \in {"encoded", "decoded"}
             /\ Len(codec.wire) = Len(codec.data)
             /\ codec.pc = "decoded" => codec.out = codec.data
        ELSE codec.pc \in {"encode_failed", "encoded", "decode_failed"}

\* C18 witness: an 8-byte buffer was enciphered to something else and decoded
\* back to itself.
C18_Witness ==
    /\ codec.pc = "decoded"
    /\ Len(codec.data) = 8
    /\ codec.wire # codec.data
    /\ codec.out = codec.data

\* C19: etrv_decode runs the cipher and returns only for a length of at
\* least 8 that is a multiple of 4; a 1-byte input fails with the device
\* error code, which is that byte; any other length fails with a length
\* failure; no failure runs the cipher.
C19_DecodeRejectsLengths ==
    codec.pc \in {"decoded", "decode_failed"} =>
        LET n == Len(codec.wire)
        IN  /\ codec.pc = "decoded" <=> (n >= 8 /\ n % 4 = 0)
            /\ codec.ran <=> codec.pc = "decoded"
            /\ codec.pc = "decode_failed" =>
                  IF n = 1
                  THEN codec.err = <<"EtrvDecodeError", "device_error_code", codec.wire[1]>>
                  ELSE /\ codec.err[1] = "EtrvDecodeError"
                       /\ codec.err[2] \in {"length_below_8", "length_not_multiple_of_4"}
                       /\ codec.err[3] = n

\* C19 witness: a single byte 0xFF received from the device was rejected as
\* device error code 0xFF.
C19_Witness ==
    /\ codec.pc = "decode_failed"
    /\ codec.wire = <<255>>
    /\ codec.err = <<"EtrvDecodeError", "device_error_code", 255>>
    /\ ~codec.ran

\* ---------------------------------------------------------------- termination
\* The task is inside _ensure_connected (or the _send_pin_once it awaits).
InEnsure(t) ==
    pc[t] \in {"ensure", "loop", "evicting", "connecting", "sleeping",
               "pin_write", "pin_settle"}

\* C20: every _ensure_connected call comes to an end, returning a link or
\* raising.
C20_EnsureTerminates ==
    \A t \in OpTasks : InEnsure(t) ~> ~InEnsure(t)

\* C20 witness: a call whose every attempt failed has ended with the
\* connect-timeout error.
C20_Witness ==
    \E t \in OpTasks :
        /\ pc[t] = "idle"
        /\ issued = 1
        /\ result[t] = "EtrvBleTimeoutError"

\* ------------------------------------------------------- connect-loop claims
\* C21: an iteration that makes no link attempt (the device reference could
\* not be resolved) is a failed one that opens no link and touches no session
\* state, records the failure as the last error, and goes on to the backoff
\* sleep bounded by the deadline, or straight to the next deadline test when
\* no time is left; the call is not ended by it and keeps the lock.
C21_UnresolvableIsRecoverable ==
    [][\A t \in OpTasks :
          (/\ pc[t] = "evicting" \/ (pc[t] = "loop" /\ fr[t].deadline - now > 0)
           /\ fr'[t] # fr[t]
           /\ pc'[t] \notin {"evicting", "connecting"}) =>
              /\ fr'[t].fails = fr[t].fails + 1
              /\ fr'[t].last_err = "nodevice"
              /\ fr'[t].per_attempt = fr[t].per_attempt
              /\ fr'[t].started = fr[t].started
              /\ fr'[t].link = fr[t].link
              /\ linkState' = linkState
              /\ client' = client
              /\ pin_sent' = pin_sent
              /\ result'[t] = result[t]
              /\ lockHolder' = t
              /\ fr'[t].sleep_for <= Max(0, fr[t].deadline - now')
              /\ fr'[t].sleep_for >= Min(BaseBackoff(fr'[t].attempt),
                                         Max(0, fr[t].deadline - now'))
              /\ pc'[t] = IF fr'[t].sleep_for > 0 THEN "sleeping" ELSE "loop"]_vars

\* C21 witness: the device was not visible in the first iteration; after the
\* backoff the second iteration resolved it, connected, and the call went on
\* to its attribute read before the deadline.
C21_Witness ==
    \E t \in OpTasks :
        /\ pc[t] = "io"
        /\ fr[t].path = "slow"
        /\ fr[t].last_err = "nodevice"
        /\ fr[t].fails = 1
        /\ fr[t].attempt = 2
        /\ fr[t].link_attempt = 2
        /\ IsConnected(client)
        /\ now < fr[t].deadline

\* ------------------------------------------------------------ ordering claims
\* Task a started waiting for the lock before task b did, and both still wait.
WaitsBefore(a, b) ==
    \E i, j \in 1..Len(lockWaiters) :
        i < j /\ lockWaiters[i] = a /\ lockWaiters[j] = b

\* C22 (first come, first served): a call that starts waiting goes behind
\* every call already waiting and the waiting calls keep their order; a call
\* gets the lock, and so begins its connect / PIN / attribute I/O, only when
\* no call that started waiting before it still waits and no other call is
\* between acquiring and releasing the lock.
C22_CallsInIssueOrder ==
    [][\A t \in OpTasks :
          /\ (pc[t] # "wait_lock" /\ pc'[t] = "wait_lock") =>
                lockWaiters' = Append(lockWaiters, t)
          /\ \A u \in OpTasks :
                (WaitsBefore(t, u) /\ pc'[t] = "wait_lock" /\ pc'[u] = "wait_lock")
                    => WaitsBefore(t, u)'
          /\ (pc[t] \in {"next", "wait_lock"} /\ InCritical(t)') =>
                /\ \A u \in OpTasks \ {t} :
                      /\ ~InCritical(u) /\ ~InCritical(u)'
                      /\ pc[u] = "wait_lock" => WaitsBefore(t, u)
                /\ pc[t] = "next" => lockWaiters = <<>>]_vars

\* C22 witness: the lock has just been released with one call queued for it,
\* and the call the other task started next has queued behind that one
\* although the lock is free.
C22_Witness ==
    \E a, b \in OpTasks :
        /\ a # b
        /\ lockHolder = NoTask
        /\ lockWaiters = <<a, b>>
        /\ pc[a] = "wait_lock"
        /\ pc[b] = "wait_lock"
        /\ result[b] = "ok"

\* ------------------------------------------------------------ facade claims
\* The call in progress is the plain read async_get_secret_key makes.
SecretKeyRead(t) ==
    call[t].op = "read" /\ call[t].uuids = <<UUID_SECRET_KEY>>

\* The session part of C23: the secret-key read is issued on a link whose PIN
\* write was acknowledged and settled, it asks for no decoding, and it is not
\* refused for want of a secret key.
SecretKeyReadAuthenticated ==
    \A t \in OpTasks :
        (pc[t] = "io" /\ SecretKeyRead(t)) =>
            /\ pinWrites[cl[t]] >= 1
            /\ pinSettled[cl[t]]
            /\ ~call[t].crypt
            /\ Decoded(t)

\* C23: the string async_get_secret_key returns is the first 16 bytes of the
\* response in hex, and it is always 32 lowercase hex characters.
C23_SecretKeyIs32HexChars ==
    keyread.pc = "returned" =>
        /\ keyread.value = Hex(FirstBytes(keyread.data, KEY_BYTES))
        /\ Len(keyread.value) = 2 * KEY_BYTES
        /\ \A i \in 1..Len(keyread.value) :
              \E d \in 1..Len(HexDigits) : keyread.value[i] = HexDigits[d]

\* C24: on a session without a secret key, a call made with decode=True or
\* encode=True never ends with a result, only with an exception, and an
\* encrypted write never gets as far as the write of its attribute.
C24_NoKeyNoEncryptedResult ==
    [][\A t \in OpTasks :
          ~has_secret =>
              /\ (call[t].crypt /\ call'[t] = NoCall) =>
                    result'[t] \notin {"ok", NoResult}
              /\ (call'[t].op = "write" /\ call'[t].crypt) => pc'[t] # "io"]_vars

\* C24 witness: on a session without a secret key a call connected, had its
\* PIN acknowledged, and ended with EtrvBleError without any encrypted
\* attribute I/O on the open link: an encrypted write refused before its
\* write.
C24_Witness ==
    /\ ~has_secret
    /\ issued = 1
    /\ pc[Solo] = "idle"
    /\ result[Solo] = "EtrvBleError"
    /\ IsConnected(client)
    /\ pinSettled[client]
    /\ encIO = {}

\* C25: a call that is at its attribute I/O never goes back to connecting,
\* to the PIN write or to an attribute it has read: it goes on to the next
\* attribute, to the closing disconnect, or ends; and when a read ends with
\* the error of a failed decoding, that one step ends the call and the facade
\* operation, releases the lock, and changes neither the session nor any link
\* nor the PIN writes made.
C25_DecodeFailureSurfaced ==
    [][\A t \in OpTasks :
          pc[t] = "io" =>
              /\ pc'[t] \in {"io", "closing", "next", "idle"}
              /\ (pc'[t] = "io" /\ call'[t] # call[t]) =>
                    call'[t] = [call[t] EXCEPT !.idx = @ + 1]
              /\ result'[t] = "EtrvBleError" =>
                    /\ call[t].crypt
                    /\ call[t].op \in {"read", "read_many"}
                    /\ pc'[t] = "idle"
                    /\ call'[t] = NoCall
                    /\ todo'[t] = <<>>
                    /\ lockHolder' = NoTask
                    /\ UNCHANGED <<session, linkState, history>>]_vars

\* C25 witness: on a paired session that stays connected, the first facade
\* operation ended with EtrvBleError after an encrypted read on the link
\* that is still open and authenticated: the value read was not decodable.
C25_Witness ==
    /\ has_secret
    /\ stay_connected
    /\ issued = 1
    /\ pc[Solo] = "idle"
    /\ result[Solo] = "EtrvBleError"
    /\ IsConnected(client)
    /\ client \in encIO
    /\ pin_sent
    /\ lockHolder = NoTask

\* The call in progress is the battery read of read_state.
BatteryRead(t) == call[t].uuids = <<UUID_BATTERY>>

\* C26: the battery read asks for no PIN and no decoding, is never at a PIN
\* write or its settle delay, and is not refused for want of a secret key;
\* the multi-read of read_state is of temperature and name, asks for the PIN
\* and for decoding, reads its attributes only on a link whose PIN write was
\* acknowledged and settled, and hands on only what it could decode.
C26_BatteryPlainOthersEncrypted ==
    \A t \in OpTasks :
        /\ BatteryRead(t) =>
              /\ call[t].op = "read"
              /\ ~call[t].send_pin
              /\ ~call[t].crypt
              /\ pc[t] \notin {"pin_write", "pin_settle"}
              /\ Decoded(t)
        /\ call[t].op = "read_many" =>
              /\ call[t].uuids = <<UUID_TEMPERATURE, UUID_NAME>>
              /\ call[t].send_pin
              /\ call[t].crypt
              /\ pc[t] = "io" => (pinWrites[cl[t]] >= 1 /\ pinSettled[cl[t]])
              /\ (pc[t] = "io" /\ call[t].idx > 1) => has_secret

\* C26 witness: on a session without a secret key the battery read of
\* read_state has returned its value, no PIN having been written on any link,
\* and the encrypted reads are still to come.
C26_Witness ==
    \E t \in OpTasks :
        /\ ~has_secret
        /\ pc[t] = "next"
        /\ result[t] = "ok"
        /\ todo[t] = <<ReadManyCall(<<UUID_TEMPERATURE, UUID_NAME>>, TRUE, TRUE)>>
        /\ \A l \in Links : pinWrites[l] = 0

\* ---------------------------------------------------------- disconnect claims
\* C27: when an async_disconnect call that awaited the transport disconnect
\* finishes, whether that disconnect returned or raised, the session holds no
\* link reference and its PIN-sent flag is false.
C27_DisconnectAlwaysClears ==
    [][\A u \in DiscTasks :
          (pc[u] = "closing" /\ pc'[u] = "idle") =>
              (client' = None /\ ~pin_sent')]_vars

\* -------------------------------------------------------------- eviction claims
\* What C28 says of every iteration but the first: an eviction is started
\* only when more than the stale interval has passed since the last one that
\* succeeded (since clock reading 0 if none has); last_stale_close changes only
\* when an eviction returns, to the time it returned; and whether an eviction
\* returns or raises, the call is not ended and goes on in the same iteration
\* to the link attempt, or to the backoff if the device is not resolvable.
EvictionCadence(t) ==
    /\ (pc[t] = "loop" /\ pc'[t] = "evicting") =>
          now - fr[t].last_stale_close > CONNECT_STALE_CLOSE_EVERY
    /\ (pc[t] = "loop" /\ pc'[t] \in {"connecting", "sleeping"}) =>
          now - fr[t].last_stale_close <= CONNECT_STALE_CLOSE_EVERY
    /\ (InLoop(t) /\ InLoop(t)' /\ fr'[t].last_stale_close # fr[t].last_stale_close) =>
          (pc[t] = "evicting" /\ fr'[t].last_stale_close = now')
    /\ (pc[t] = "evicting" /\ fr'[t] # fr[t]) =>
          /\ pc'[t] \in {"connecting", "sleeping", "loop"}
          /\ fr'[t].attempt = fr[t].attempt
          /\ result'[t] = result[t]
          /\ lockHolder' = t
          /\ pc'[t] = "connecting" => fr'[t].started = now'

C29_ReturnsAppliedValue ==
    rec.pc = "done" => rec.ret = <<Clamp(rec.target)>>

\* -------------------------------------------------------------- link claims
\* The links that were established and have neither been disconnected nor
\* dropped.
OpenLinks == {l \in Links : linkState[l] = "up"}

\* C30: at most one link of the session is open at any time, and an open link
\* is the one the session refers to.
C30_AtMostOneOpenLink ==
    /\ Cardinality(OpenLinks) <= 1
    /\ \A l \in OpenLinks : client = l

\* ------------------------------------------------------------ PIN flag claims
\* C31: whenever the PIN-sent flag is true the session holds a link reference
\* and a PIN write has been acknowledged on that link.
C31_FlagImpliesAuthenticatedLink ==
    pin_sent => (client # None /\ pinWrites[client] >= 1)

\* ------------------------------------------------------- read-modify-write
\* The task has read the temperature record and has not yet got the lock for
\* writing it back.
BetweenReadAndWrite(t) ==
    \/ pc[t] = "next" /\ todo[t] # <<>> /\ Head(todo[t]).op = "write"
    \/ pc[t] = "wait_lock" /\ call[t].op = "write"

\* The task is awaiting a transport call: a link attempt, a PIN write, an
\* attribute read or write, or a disconnect.
InLinkIO(u) == pc[u] \in {"connecting", "pin_write", "io", "closing"}

\* C32: between the read of set_temperature and its write-back no other task
\* of the session is doing link I/O.
C32_ReadModifyWriteAtomic ==
    \A t \in OpTasks :
        BetweenReadAndWrite(t) => \A u \in Tasks \ {t} : ~InLinkIO(u)

\* ------------------------------------------------------------ coordinator
\* C33: the setpoint asked for last is never cleared unapplied: it is still
\* pending, or it is the value last passed to the device.
C33_LatestSetpointKept ==
    coord.requested # <<>> =>
        \/ coord.pending = coord.requested
        \/ /\ coord.applied # <<>>
           /\ coord.applied[Len(coord.applied)] = coord.requested[1]

\* ------------------------------------------------------------- lock claims
\* C34: the lock is held exactly while its holder's call is running; the step
\* in which a call ends with an exception leaves the lock free; and a call
\* that waits for the lock gets it.
C34_FailureReleasesLock ==
    /\ [](\A t \in OpTasks : lockHolder = t <=> InCritical(t))
    /\ [][\A t \in OpTasks :
            (result'[t] # result[t] /\ result'[t] \notin {"ok", NoResult}) =>
                (lockHolder' = NoTask /\ pc'[t] = "idle")]_vars
    /\ \A t \in OpTasks : (pc[t] = "wait_lock") ~> (lockHolder = t)

\* C34 witness: one task's call has ended with an exception and the call of
\* the other task, issued meanwhile, has just been given the lock.
C34_Witness ==
    \E t1, t2 \in OpTasks :
        /\ pc[t1] = "idle"
        /\ result[t1] \notin {"ok", NoResult}
        /\ pc[t2] = "ensure"
        /\ lockHolder = t2
        /\ fr[t2] = NoFrame

\* C35: backoff respects the deadline. Every backoff sleep of
\* _ensure_connected lasts at most the time left to the deadline when it
\* starts, no link attempt is started once the deadline has been reached, and
\* the connect-timeout error is raised only when the deadline has been
\* reached, never earlier.
C35_BackoffRespectsDeadline ==
    [][\A t \in OpTasks :
          /\ (pc'[t] = "sleeping" /\ fr'[t] # fr[t]) =>
                 fr'[t].sleep_for <= Max(0, fr'[t].deadline - now')
          /\ (pc'[t] = "connecting" /\ pc[t] # "connecting") =>
                 fr'[t].started < fr'[t].deadline
          /\ (result'[t] = "EtrvBleTimeoutError" /\ result[t] # "EtrvBleTimeoutError") =>
                 now >= fr[t].deadline]_vars

\* a call is in the connect loop of _ensure_connected
Reconnecting(t) == pc[t] \in {"loop", "evicting", "connecting", "sleeping"}

\* C36: link reuse under stay-connected. With stay_connected true a call that
\* succeeds leaves the link open and the PIN-sent flag as they were; a call
\* that finds the link up performs no stale eviction, no device resolution and
\* no connect attempt; a call that finds the link dropped goes into the
\* connect loop, and its encrypted access is on a link it has presented the
\* PIN on.
C36_LinkReuse ==
    /\ [][\A t \in OpTasks :
            /\ (stay_connected /\ pc[t] = "io" /\ pc'[t] # "io" /\ result'[t] = "ok") =>
                   (client' = client /\ pin_sent' = pin_sent /\
                    linkState' = linkState)
            /\ (stay_connected /\ pc[t] = "io") => pc'[t] # "closing"
            /\ (pc[t] = "ensure" /\ pc'[t] # "ensure") =>
                   IF client # None /\ linkState[client] = "up"
                   THEN ~Reconnecting(t)' /\ fr'[t].path # "slow"
                   ELSE pc'[t] = "loop" /\ fr'[t].path = "slow"]_vars
    /\ [](\A t \in OpTasks :
            /\ fr[t].path = "fast" => ~Reconnecting(t)
            /\ (pc[t] = "io" /\ call[t].crypt /\ fr[t].path = "slow") =>
                   (pinWrites[cl[t]] >= 1 /\ fr[t].link_attempt >= 1))

C36_Witness ==
    \E t \in OpTasks : \E l \in Links :
        /\ stay_connected
        /\ linkState[l] = "down" /\ l \in encIO
        /\ pc[t] = "io" /\ call[t].crypt /\ fr[t].path = "fast"
        /\ cl[t] # l /\ linkState[cl[t]] = "up"
        /\ pinWrites[cl[t]] = 1 /\ cl[t] \in encIO

\* C37: async_read_many is all-or-nothing on one connection. All its
\* attributes are read within a single lock hold on a single physical
\* connection, the call makes at most one PIN write (a PIN write it starts is
\* the first of the call: it has had no link before), and when an attribute
\* read or its decoding fails the call raises and returns nothing.
C37_ReadManyAllOrNothing ==
    /\ [](\A t \in OpTasks :
            (call[t].op = "read_many" /\ pc[t] = "io") => lockHolder = t)
    /\ [][\A t \in OpTasks : call[t].op = "read_many" =>
            /\ (pc[t] = "io" /\ pc'[t] = "io") =>
                   (cl'[t] = cl[t] /\ lockHolder' = t)
            /\ (pc[t] = "io" /\ pc'[t] \notin {"io", "closing"} /\ result'[t] # "ok") =>
                   (pc'[t] = "idle" /\ todo'[t] = <<>>)
            /\ (pc'[t] = "pin_write" /\ pc[t] # "pin_write") =>
                   fr[t].link = None]_vars

\* C38: a missing secret key is detected before any link activity. An
\* encrypted call on a session with no secret key fails as soon as it has the
\* lock: it makes no connect attempt, no PIN write and no attribute read or
\* write, and leaves the link, the flag and every connection as they were.
C38_MissingKeyBeforeLinkActivity ==
    /\ [](\A t \in OpTasks : (call[t].crypt /\ ~has_secret) =>
             pc[t] \in {"idle", "next", "wait_lock", "ensure"})
    /\ [][\A t \in OpTasks :
            (call[t].crypt /\ ~has_secret /\ pc[t] = "ensure" /\ pc'[t] # "ensure") =>
                (result'[t] = "EtrvBleError" /\ client' = client /\
                 pin_sent' = pin_sent /\ linkState' = linkState)]_vars
====
